---- MODULE Spec2Model ----
(***************************************************************************)
(* StableMind v0: the per-turn personality pipeline of                     *)
(* src/stablemind (agent.py, engines.py, events.py, io_state.py,           *)
(* io_memory.py) and the reset utility src/reset_personality.py.           *)
(*                                                                         *)
(* Numbers.  The program computes with Python floats in [0,1].  The model  *)
(* computes in thousandths: the integer 1000 stands for 1.0, 500 for the   *)
(* neutral point 0.5, 20 for the step 0.02.  A product of two thousandth   *)
(* quantities is rounded toward zero to a whole thousandth (MulFrac), a    *)
(* mean is the integer quotient of sum by count (Mean).                    *)
(*                                                                         *)
(* Text.  A user message is a sequence of lower-case words of a small      *)
(* vocabulary; the text the program scans is these words joined by single  *)
(* blanks.  "k in text" for a keyword k without a blank is then "k is a    *)
(* substring of some word", tabulated per word in Substrings.              *)
(***************************************************************************)
EXTENDS Integers, Sequences, FiniteSets, TLC

VARIABLES
    counters,      \* state/counters.json
    vectors,       \* state/vectors.json
    persona,       \* persona/stable_traits.json and persona/dynamic_traits.json
    rules,         \* rules/*.json as returned by StateStore.load_rules
    belief_log,    \* memory/belief_observations.jsonl, one record per line
    episodic_log,  \* memory/episodic_memory.jsonl, one record per line
    drift_log,     \* logs/drift_metrics.jsonl, one record per line
    result,        \* what the last operation returned (StepResult for a step)
    last_op,       \* name of the last operation applied, "init" before any
    calls,         \* the invocations of step in progress: what each holds in memory
    backups,       \* the .bak files next to the state and persona files
    disk,          \* what each state and persona file holds: a JSON text or not
    engines        \* the engine objects StableMindAgent.__init__ constructed

vars == <<counters, vectors, persona, rules, belief_log, episodic_log,
          drift_log, result, last_op, calls, backups, disk, engines>>

----------------------------------------------------------------------------
(* Fixed-point arithmetic *)

\* 1.0 in thousandths (the default hi of clamp)
One == 1000

\* neutral = 0.5
Neutral == 500

Min(a, b) == IF a <= b THEN a ELSE b

Max(a, b) == IF a >= b THEN a ELSE b

Abs(x) == IF x >= 0 THEN x ELSE -x

\* x * f for a fraction f given in thousandths, rounded toward zero
MulFrac(x, f) ==
    IF x * f >= 0 THEN (x * f) \div One ELSE -((-(x * f)) \div One)

\* max(lo, min(hi, x))
clamp(x, lo, hi) == Max(lo, Min(hi, x))

\* d.get(k, default)
Get(d, k, default) == IF k \in DOMAIN d THEN d[k] ELSE default

\* the empty dict
EmptyDict == [k \in {} |-> 0]

\* sum(s) for a sequence of integers
RECURSIVE SumSeq(_)
SumSeq(s) == IF s = <<>> THEN 0 ELSE Head(s) + SumSeq(Tail(s))

\* sum(values) / len(values), in whole thousandths
Mean(values) == SumSeq(values) \div Len(values)

----------------------------------------------------------------------------
(* EmotionEngine.update *)

\* mutant of DecayTowardNeutral: the decay pulls toward 0
DecayTowardNeutral_TowardZero(emotion, decay) ==
    [k \in DOMAIN emotion |-> clamp(MulFrac(emotion[k], decay), 0, One)]

\* decay toward neutral: {k: clamp(neutral + (v - neutral) * decay)}
DecayTowardNeutral(emotion, decay) ==
    [k \in DOMAIN emotion |->
        clamp(Neutral + MulFrac(emotion[k] - Neutral, decay), 0, One)]

\* mutant of ApplyEventRow: the delta is added and the sum is not clamped
ApplyEventRow_Unclamped(emotion, row) ==
    [k \in (DOMAIN emotion) \cup (DOMAIN row) |->
        IF k \in DOMAIN row
        THEN Get(emotion, k, Neutral) + row[k]
        ELSE emotion[k]]

\* for emo, d in deltas[ev].items(): emotion[emo] = clamp(emotion.get(emo, 0.5) + d)
ApplyEventRow(emotion, row) ==
    [k \in (DOMAIN emotion) \cup (DOMAIN row) |->
        IF k \in DOMAIN row
        THEN clamp(Get(emotion, k, Neutral) + row[k], 0, One)
        ELSE emotion[k]]

\* for ev in events: skip ev not in deltas, else apply its row
RECURSIVE ApplyEvents(_, _, _)
ApplyEvents(emotion, events, deltas) ==
    IF events = <<>> THEN emotion
    ELSE ApplyEvents(
            IF Head(events) \in DOMAIN deltas
            THEN ApplyEventRow(emotion, deltas[Head(events)])
            ELSE emotion,
            Tail(events), deltas)

EmotionEngine_update(emotion, events, rls) ==
    ApplyEvents(
        DecayTowardNeutral(emotion, rls.emotion_trait.emotion_decay),
        events, rls.event_emotion)

----------------------------------------------------------------------------
(* TraitEngine.apply_emotion_nudges *)

\* delta = sum of w * (emotion.get(emo, 0.5) - 0.5), in millionths
RECURSIVE WeightedSum(_, _, _)
WeightedSum(weights, emotion, todo) ==
    IF todo = {} THEN 0
    ELSE LET emo == CHOOSE e \in todo : TRUE
         IN  weights[emo] * (Get(emotion, emo, Neutral) - Neutral)
             + WeightedSum(weights, emotion, todo \ {emo})

\* mutant of CappedDelta: the weighted sum is added as it is
CappedDelta_Uncapped(weights, emotion, per_turn_cap) ==
    LET raw == WeightedSum(weights, emotion, DOMAIN weights)
    IN  IF raw >= 0 THEN raw \div One ELSE -((-raw) \div One)

\* the delta of one coefficient row, clamped to [-per_turn_cap, per_turn_cap]
CappedDelta(weights, emotion, per_turn_cap) ==
    LET raw == WeightedSum(weights, emotion, DOMAIN weights)
        delta == IF raw >= 0 THEN raw \div One ELSE -((-raw) \div One)
    IN  clamp(delta, -per_turn_cap, per_turn_cap)

\* first loop: the value of `updated[trait]` after the emotion-driven deltas
DrivenTrait(trait, baseline, current, emotion, nudges) ==
    IF  /\ trait \in DOMAIN nudges.coefficients_centered
        /\ trait \in DOMAIN baseline
    THEN clamp(current[trait]
               + CappedDelta(nudges.coefficients_centered[trait], emotion,
                             nudges.per_turn_trait_cap),
               0, One)
    ELSE current[trait]

\* mutant of ReturnToBaseline: the pulled-back value is not clamped
ReturnToBaseline_Unclamped(trait, value, baseline, return_to_base) ==
    IF trait \notin DOMAIN baseline THEN value
    ELSE baseline[trait] + MulFrac(value - baseline[trait], return_to_base)

\* mutant of ReturnToBaseline: the second loop does not pull back
ReturnToBaseline_NoReturn(trait, value, baseline, return_to_base) ==
    IF trait \notin DOMAIN baseline THEN value
    ELSE clamp(value, 0, One)

\* mutant of ReturnToBaseline: the distance to the baseline is taken to the
\* other side of it
ReturnToBaseline_Overshoots(trait, value, baseline, return_to_base) ==
    IF trait \notin DOMAIN baseline THEN value
    ELSE clamp(baseline[trait]
               - MulFrac(value - baseline[trait], return_to_base), 0, One)

\* second loop: return toward baseline, for the traits the baseline has
ReturnToBaseline(trait, value, baseline, return_to_base) ==
    IF trait \notin DOMAIN baseline THEN value
    ELSE clamp(baseline[trait]
               + MulFrac(value - baseline[trait], return_to_base), 0, One)

TraitEngine_apply_emotion_nudges(baseline, current, emotion, rls) ==
    LET nudges == rls.emotion_trait_nudges
    IN  [t \in DOMAIN current |->
            ReturnToBaseline(t,
                DrivenTrait(t, baseline, current, emotion, nudges),
                baseline, nudges.trait_return_to_baseline)]

----------------------------------------------------------------------------
(* EventExtractor.extract *)

\* Python's None
None == "None"

\* `if focused_entity:`: None and the empty string are false
Truthy(x) == x # None /\ x # ""

\* the words a message is made of
Words == {"hello", "won", "moon", "sun", "cafe", "loud", "quiet", "calm", "there", "it"}

\* for each word, the keywords of events.py and of the taxonomy that are
\* substrings of it ("there" contains "here")
Substrings(w) ==
    CASE w = "hello" -> {"hello"}
      [] w = "won"   -> {"won"}
      [] w = "loud"  -> {"loud"}
      [] w = "quiet" -> {"quiet"}
      [] w = "calm"  -> {"calm"}
      [] w = "there" -> {"there", "here"}
      [] w = "it"    -> {"it"}
      [] OTHER       -> {}

\* the keywords that occur in the text
KeywordsIn(text) == UNION {Substrings(text[i]) : i \in DOMAIN text}

\* any(k in text for k in keywords), given the keywords that occur in the text
AnyIn(keywords, found) == found \cap keywords # {}

\* the built-in event heuristics, in the order of the source
EventHeuristics == <<
    [tag |-> "major_achievement",
     keys |-> {"congrats", "i did it", "won", "achieved", "got accepted", "promotion", "award"}],
    [tag |-> "social_rejection",
     keys |-> {"rejected", "ignored", "left me", "they hate", "go away", "stop texting"}],
    [tag |-> "betrayal",
     keys |-> {"betray", "betrayed", "lied to me", "you lied", "backstab", "broke my trust"}],
    [tag |-> "conflict",
     keys |-> {"argue", "argument", "fight", "conflict", "confrontation"}],
    [tag |-> "burnout_episode",
     keys |-> {"burnout", "burned out", "burnt out", "exhausted", "can't do this"}],
    [tag |-> "feedback_positive",
     keys |-> {"good job", "love this", "amazing", "praised", "compliment", "positive feedback"}],
    [tag |-> "feedback_negative",
     keys |-> {"this sucks", "bad feedback", "cringe", "hate it", "criticized", "negative feedback"}] >>

\* the tags of the rows that match, in order
RECURSIVE MatchedTags(_, _)
MatchedTags(rows, found) ==
    IF rows = <<>> THEN <<>>
    ELSE (IF AnyIn(Head(rows).keys, found) THEN <<Head(rows).tag>> ELSE <<>>)
         \o MatchedTags(Tail(rows), found)

\* list(dict.fromkeys(s)): first occurrences, order kept
RECURSIVE Dedupe(_)
Dedupe(s) ==
    IF s = <<>> THEN <<>>
    ELSE LET front == Dedupe(SubSeq(s, 1, Len(s) - 1))
             last == s[Len(s)]
         IN  IF \E i \in DOMAIN front : front[i] = last
             THEN front ELSE Append(front, last)

\* f"{tokens[i - 1]} cafe".title()
CafeEntity(token) ==
    CASE token = "hello" -> "Hello Cafe"
      [] token = "won"   -> "Won Cafe"
      [] token = "moon"  -> "Moon Cafe"
      [] token = "sun"   -> "Sun Cafe"
      [] token = "cafe"  -> "Cafe Cafe"
      [] token = "loud"  -> "Loud Cafe"
      [] token = "quiet" -> "Quiet Cafe"
      [] token = "calm"  -> "Calm Cafe"
      [] token = "there" -> "There Cafe"
      [] token = "it"    -> "It Cafe"

\* the loop over tokens: the last "cafe" at a position i > 0 decides
ExplicitEntity(tokens) ==
    LET hits == {i \in DOMAIN tokens : tokens[i] = "cafe" /\ i > 1}
    IN  IF hits = {} THEN None
        ELSE CafeEntity(tokens[(CHOOSE i \in hits : \A j \in hits : j <= i) - 1])

DeicticMarkers == {"there", "it", "that place", "this place", "here"}

noisy_cues == {"loud", "noisy", "music", "chaos", "chaotic", "blasting"}

quiet_cues == {"quiet", "calm", "peaceful", "silent"}

\* value of a noisy observation, 0.8
NoisyValue == 800

\* value of a quiet observation, 0.2
QuietValue == 200

\* mutant of FocusedEntity: the deixis fallback is tried before the explicit
\* mention
FocusedEntity_ContextFirst(tokens, found, context) ==
    IF AnyIn(DeicticMarkers, found) THEN Get(context, "last_entity_focus", None)
    ELSE ExplicitEntity(tokens)

\* step 2 of extract: explicit mention first, then the deixis fallback
FocusedEntity(tokens, found, context) ==
    LET explicit == ExplicitEntity(tokens)
    IN  IF explicit # None THEN explicit
        ELSE IF AnyIn(DeicticMarkers, found)
             THEN Get(context, "last_entity_focus", None)
        ELSE None

\* mutant of BeliefObservations: the quiet cues are tried before the noisy ones
BeliefObservations_QuietFirst(found, focused_entity) ==
    IF ~Truthy(focused_entity) THEN <<>>
    ELSE IF AnyIn(quiet_cues, found)
         THEN <<[entity |-> focused_entity, dimension |-> "noise_level",
                 value |-> QuietValue]>>
    ELSE IF AnyIn(noisy_cues, found)
         THEN <<[entity |-> focused_entity, dimension |-> "noise_level",
                 value |-> NoisyValue]>>
    ELSE <<>>

\* step 3 of extract: at most one observation, noisy cues first
\* (evidence_text, the message itself, is not kept in the record)
BeliefObservations(found, focused_entity) ==
    IF ~Truthy(focused_entity) THEN <<>>
    ELSE IF AnyIn(noisy_cues, found)
         THEN <<[entity |-> focused_entity, dimension |-> "noise_level",
                 value |-> NoisyValue]>>
    ELSE IF AnyIn(quiet_cues, found)
         THEN <<[entity |-> focused_entity, dimension |-> "noise_level",
                 value |-> QuietValue]>>
    ELSE <<>>

\* the note, as <<entity, what is said of it>>; <<>> is the empty note ""
Notes(found, focused_entity) ==
    IF ~Truthy(focused_entity) THEN <<>>
    ELSE IF AnyIn(noisy_cues, found) THEN <<focused_entity, "was noisy/loud.">>
    ELSE IF AnyIn(quiet_cues, found) THEN <<focused_entity, "was quiet/calm.">>
    ELSE <<>>

\* the taxonomy fallback: each event type with a keyword in the text; the
\* taxonomy's event_types are rows [tag, keys] in the order of the file
TaxonomyTags(event_types, found) == MatchedTags(event_types, found)

\* extract(user_message, context); `taxonomy` is self.taxonomy
EventExtractor_extract(user_message, context, taxonomy) ==
    LET found == KeywordsIn(user_message)
        focused_entity == FocusedEntity(user_message, found, context)
    IN  [events |-> Dedupe(MatchedTags(EventHeuristics, found)
                           \o TaxonomyTags(taxonomy.event_types, found)),
         entities |-> IF Truthy(focused_entity) THEN <<focused_entity>> ELSE <<>>,
         belief_observations |-> BeliefObservations(found, focused_entity),
         notes |-> Notes(found, focused_entity),
         focused_entity |-> focused_entity]

----------------------------------------------------------------------------
(* MemoryStore *)

\* append_belief_observation: record = {"turn": turn, **obs}
append_belief_observation(log, session_id, turn, obs) ==
    Append(log, [turn |-> turn, entity |-> obs.entity,
                 dimension |-> obs.dimension, value |-> obs.value])

\* for ob in belief_obs: append_belief_observation(session_id, turn, ob)
RECURSIVE AppendObservations(_, _, _, _)
AppendObservations(log, session_id, turn, obs_list) ==
    IF obs_list = <<>> THEN log
    ELSE AppendObservations(
            append_belief_observation(log, session_id, turn, Head(obs_list)),
            session_id, turn, Tail(obs_list))

\* append_episode (the texts are not kept: turn and kind of record only)
append_episode(log, session_id, turn) ==
    Append(log, [turn |-> turn, kind |-> "episode"])

\* append_agent_reply
append_agent_reply(log, session_id, turn) ==
    Append(log, [turn |-> turn, kind |-> "agent_reply"])

\* mutant of read_beliefs_window: the first turn of the window is left out
read_beliefs_window_OpenStart(log, session_id, start_turn, end_turn) ==
    SelectSeq(log, LAMBDA obj : start_turn < obj.turn /\ obj.turn <= end_turn)

\* read_beliefs_window: the records with start_turn <= turn <= end_turn, in order
read_beliefs_window(log, session_id, start_turn, end_turn) ==
    SelectSeq(log, LAMBDA obj : start_turn <= obj.turn /\ obj.turn <= end_turn)

----------------------------------------------------------------------------
(* RuminationEngine.run *)

MIN_OBS_TO_CREATE == 2

\* confidence of a new belief, 0.6
InitialConfidence == 600

\* confidence gained on reinforcement, 0.02
ReinforceStep == 20

\* confidence lost on contradiction, 0.05
ContradictStep == 50

\* an observation contradicts a mean it is more than 0.3 away from
ContradictThreshold == 300

\* f"{entity.lower().replace(' ', '_')}_{dimension}"
BeliefKey(entity, dimension) ==
    CASE entity = "Hello Cafe" /\ dimension = "noise_level" -> "hello_cafe_noise_level"
      [] entity = "Won Cafe"   /\ dimension = "noise_level" -> "won_cafe_noise_level"
      [] entity = "Moon Cafe"  /\ dimension = "noise_level" -> "moon_cafe_noise_level"
      [] entity = "Sun Cafe"   /\ dimension = "noise_level" -> "sun_cafe_noise_level"
      [] entity = "Cafe Cafe"  /\ dimension = "noise_level" -> "cafe_cafe_noise_level"
      [] entity = "Loud Cafe"  /\ dimension = "noise_level" -> "loud_cafe_noise_level"
      [] entity = "Quiet Cafe" /\ dimension = "noise_level" -> "quiet_cafe_noise_level"
      [] entity = "Calm Cafe"  /\ dimension = "noise_level" -> "calm_cafe_noise_level"
      [] entity = "There Cafe" /\ dimension = "noise_level" -> "there_cafe_noise_level"
      [] entity = "It Cafe"    /\ dimension = "noise_level" -> "it_cafe_noise_level"

\* the observations of one (entity, dimension), in window order
Relevant(belief_obs, entity, dimension) ==
    SelectSeq(belief_obs, LAMBDA b : b.entity = entity /\ b.dimension = dimension)

\* [b["value"] for b in obs_list]
ValuesOf(obs_list) == [i \in DOMAIN obs_list |-> obs_list[i].value]

\* the keys of `groups`: the (entity, dimension) pairs of the window
GroupKeys(belief_obs) ==
    {<<belief_obs[i].entity, belief_obs[i].dimension>> : i \in
        {j \in DOMAIN belief_obs :
            Truthy(belief_obs[j].entity) /\ Truthy(belief_obs[j].dimension)}}

\* position of a group in the insertion order of `groups`
FirstIndex(belief_obs, g) ==
    CHOOSE i \in DOMAIN belief_obs :
        /\ <<belief_obs[i].entity, belief_obs[i].dimension>> = g
        /\ \A j \in 1..(i - 1) :
              <<belief_obs[j].entity, belief_obs[j].dimension>> # g

\* the belief the creation phase writes for a group
NewBelief(entity, dimension, values, turn) ==
    [entity |-> entity,
     dimension |-> dimension,
     mean |-> clamp(Mean(values), 0, One),
     confidence |-> InitialConfidence,
     last_updated_turn |-> turn,
     evidence |-> [support_count_window |-> Len(values),
                   contradict_count_window |-> 0,
                   window_size |-> Len(values)]]

\* the groups for which phase 1 creates a belief, were one observation enough
CreatingGroups_AnyObservation(places, belief_obs) ==
    {g \in GroupKeys(belief_obs) :
        /\ BeliefKey(g[1], g[2]) \notin DOMAIN places
        /\ Len(Relevant(belief_obs, g[1], g[2])) >= 1
        /\ \A h \in GroupKeys(belief_obs) :
              (h # g /\ BeliefKey(h[1], h[2]) = BeliefKey(g[1], g[2]))
              => FirstIndex(belief_obs, g) < FirstIndex(belief_obs, h)}

\* the groups for which phase 1 creates a belief: no belief under their key
\* yet (in `places` or from an earlier group of this run), enough observations
CreatingGroups(places, belief_obs) ==
    {g \in GroupKeys(belief_obs) :
        /\ BeliefKey(g[1], g[2]) \notin DOMAIN places
        /\ Len(Relevant(belief_obs, g[1], g[2])) >= MIN_OBS_TO_CREATE
        /\ \A h \in GroupKeys(belief_obs) :
              (/\ h # g
               /\ BeliefKey(h[1], h[2]) = BeliefKey(g[1], g[2])
               /\ Len(Relevant(belief_obs, h[1], h[2])) >= MIN_OBS_TO_CREATE)
              => FirstIndex(belief_obs, g) < FirstIndex(belief_obs, h)}

\* phase 1: `places` after the creation loop
CreateNewBeliefs(places, belief_obs, turn) ==
    LET creating == CreatingGroups(places, belief_obs)
        groupOf(k) == CHOOSE g \in creating : BeliefKey(g[1], g[2]) = k
    IN  [k \in (DOMAIN places) \cup {BeliefKey(g[1], g[2]) : g \in creating} |->
            IF k \in DOMAIN places THEN places[k]
            ELSE NewBelief(groupOf(k)[1], groupOf(k)[2],
                     ValuesOf(Relevant(belief_obs, groupOf(k)[1], groupOf(k)[2])),
                     turn)]

\* the x in [0, 0.7], in thousandths, for which the double (x + 0.3) - x is
\* above the double 0.3 (0.8 - 0.5 is 0.30000000000000004); for the other x it
\* is 0.3 or just below it (0.5 - 0.2 is 0.3, 0.7 - 0.4 is 0.29999999999999993)
DifferenceRoundsAbove ==
    (30..43) \cup (86..106) \cup (141..168) \cup (204..262) \cup (344..387)
        \cup (469..512) \cup (563..637) \cup (688..700)

\* the smaller of two numbers
Min2(a, b) == IF a <= b THEN a ELSE b

\* abs(v - old_mean) > 0.3, as the doubles decide it: two values exactly 0.3
\* apart contradict or not by the rounding of their difference, which is the
\* same for v - old_mean and old_mean - v
Contradicts(v, old_mean) ==
    \/ Abs(v - old_mean) > ContradictThreshold
    \/ /\ Abs(v - old_mean) = ContradictThreshold
       /\ Min2(v, old_mean) \in DifferenceRoundsAbove

\* sum(1 for v in values if abs(v - old_mean) > 0.3)
ContradictCount(values, old_mean) ==
    Cardinality({i \in DOMAIN values : Contradicts(values[i], old_mean)})

\* the test of line 181-184: count and rate (contradict / len(values)) both met
ThresholdsMet_Either(contradict, total, policy) ==
    \/ contradict >= policy.min_contradict_count
    \/ contradict * One >= policy.min_contradict_rate * total

ThresholdsMet(contradict, total, policy) ==
    /\ contradict >= policy.min_contradict_count
    /\ contradict * One >= policy.min_contradict_rate * total

\* whether the phase-2 loop takes the blending branch for a belief
Blends(belief, belief_obs, policy) ==
    LET values == ValuesOf(Relevant(belief_obs, belief.entity, belief.dimension))
    IN  /\ values # <<>>
        /\ ThresholdsMet(ContradictCount(values, belief.mean), Len(values), policy)

\* one iteration of the phase-2 loop
UpdateBelief_ResetsConfidence(belief, belief_obs, policy, turn) ==
    LET relevant == Relevant(belief_obs, belief.entity, belief.dimension)
        obs_mean == Mean(ValuesOf(relevant))
        alpha == policy.smoothing_alpha
        new_mean == (belief.mean * (One - alpha) + obs_mean * alpha) \div One
    IN  IF relevant = <<>> THEN belief
        ELSE IF Blends(belief, belief_obs, policy)
        THEN [belief EXCEPT !.mean = clamp(new_mean, 0, One),
                            !.confidence = InitialConfidence,
                            !.last_updated_turn = turn]
        ELSE [belief EXCEPT
                !.confidence = clamp(belief.confidence + ReinforceStep, 0, One)]

\* one iteration of the phase-2 loop, the confidence not held inside [0,1]
UpdateBelief_UnclampedConfidence(belief, belief_obs, policy, turn) ==
    LET relevant == Relevant(belief_obs, belief.entity, belief.dimension)
        obs_mean == Mean(ValuesOf(relevant))
        alpha == policy.smoothing_alpha
        new_mean == (belief.mean * (One - alpha) + obs_mean * alpha) \div One
    IN  IF relevant = <<>> THEN belief
        ELSE IF Blends(belief, belief_obs, policy)
        THEN [belief EXCEPT !.mean = clamp(new_mean, 0, One),
                            !.confidence = belief.confidence - ContradictStep,
                            !.last_updated_turn = turn]
        ELSE [belief EXCEPT !.confidence = belief.confidence + ReinforceStep]

\* mutant of UpdateBelief: a belief without an observation in the window is
\* stamped with the turn of the run
UpdateBelief_StampsUnobserved(belief, belief_obs, policy, turn) ==
    LET relevant == Relevant(belief_obs, belief.entity, belief.dimension)
        values == ValuesOf(relevant)
        obs_mean == Mean(values)
        old_mean == belief.mean
        old_conf == belief.confidence
        alpha == policy.smoothing_alpha
        new_mean == (old_mean * (One - alpha) + obs_mean * alpha) \div One
    IN  IF relevant = <<>> THEN [belief EXCEPT !.last_updated_turn = turn]
        ELSE IF Blends(belief, belief_obs, policy)
        THEN [belief EXCEPT !.mean = clamp(new_mean, 0, One),
                            !.confidence = clamp(old_conf - ContradictStep, 0, One),
                            !.last_updated_turn = turn]
        ELSE [belief EXCEPT !.confidence = clamp(old_conf + ReinforceStep, 0, One)]

UpdateBelief(belief, belief_obs, policy, turn) ==
    LET relevant == Relevant(belief_obs, belief.entity, belief.dimension)
        values == ValuesOf(relevant)
        obs_mean == Mean(values)
        old_mean == belief.mean
        old_conf == belief.confidence
        alpha == policy.smoothing_alpha
        new_mean == (old_mean * (One - alpha) + obs_mean * alpha) \div One
    IN  IF relevant = <<>> THEN belief
        ELSE IF Blends(belief, belief_obs, policy)
        THEN [belief EXCEPT !.mean = clamp(new_mean, 0, One),
                            !.confidence = clamp(old_conf - ContradictStep, 0, One),
                            !.last_updated_turn = turn]
        ELSE [belief EXCEPT !.confidence = clamp(old_conf + ReinforceStep, 0, One)]

\* mutant of UpdateExistingBeliefs: a belief without an observation in the
\* window is dropped
UpdateExistingBeliefs_DropsUnobserved(places, belief_obs, policy, turn) ==
    [k \in {j \in DOMAIN places :
                Relevant(belief_obs, places[j].entity, places[j].dimension) # <<>>} |->
        UpdateBelief(places[k], belief_obs, policy, turn)]

\* phase 2: the loop over places.items(), the beliefs of phase 1 included
UpdateExistingBeliefs(places, belief_obs, policy, turn) ==
    [k \in DOMAIN places |-> UpdateBelief(places[k], belief_obs, policy, turn)]

\* largest r with r * r <= n, found by bisection between lo and hi
RECURSIVE ISqrt(_, _, _)
ISqrt(n, lo, hi) ==
    IF lo >= hi THEN lo
    ELSE LET mid == (lo + hi + 1) \div 2
         IN  IF mid * mid <= n THEN ISqrt(n, mid, hi) ELSE ISqrt(n, lo, mid - 1)

\* sum((baseline[k] - initial[k]) ** 2 for k in baseline)
RECURSIVE SquaredDistance(_, _, _)
SquaredDistance(baseline, initial, todo) ==
    IF todo = {} THEN 0
    ELSE LET k == CHOOSE x \in todo : TRUE
         IN  (baseline[k] - initial[k]) * (baseline[k] - initial[k])
             + SquaredDistance(baseline, initial, todo \ {k})

\* phase 3: vectors["trait_vector"].setdefault("initial_baseline", dict(baseline))
WithInitialBaseline_Overwrites(trait_vector) ==
    [f \in (DOMAIN trait_vector) \cup {"initial_baseline"} |->
        IF f = "initial_baseline" THEN trait_vector.baseline
        ELSE trait_vector[f]]

WithInitialBaseline(trait_vector) ==
    IF "initial_baseline" \in DOMAIN trait_vector THEN trait_vector
    ELSE [f \in (DOMAIN trait_vector) \cup {"initial_baseline"} |->
            IF f = "initial_baseline" THEN trait_vector.baseline
            ELSE trait_vector[f]]

\* the drift, were it measured from the nudged current vector
DriftL2_FromCurrent(trait_vector) ==
    LET n == SquaredDistance(trait_vector.current, trait_vector.initial_baseline,
                             DOMAIN trait_vector.baseline)
    IN  ISqrt(n, 0, n)

DriftL2(trait_vector) ==
    LET n == SquaredDistance(trait_vector.baseline, trait_vector.initial_baseline,
                             DOMAIN trait_vector.baseline)
    IN  ISqrt(n, 0, n)

\* debug["updated_beliefs"], without the numbers and the order: the keys
\* phase 1 created and the keys phase 2 blended
UpdatedBeliefs(before, created, belief_obs, policy) ==
    {[belief |-> k, created |-> TRUE] : k \in (DOMAIN created) \ (DOMAIN before)}
    \cup {[belief |-> k, created |-> FALSE] : k \in
            {x \in DOMAIN created : Blends(created[x], belief_obs, policy)}}

\* run(session_id, persona, vectors, rules, memory, turn): what it leaves in
\* persona["stable"]["stable_beliefs"]["places"] and vectors["trait_vector"],
\* the record it appends to the drift log, and the debug it returns
RuminationEngine_run(session_id, places, trait_vector, rls, log, turn) ==
    LET policy == rls.update_policy.stable_baseline_update
        window == rls.update_policy.rumination_window_turns
        start_turn == turn - window + 1
        end_turn == turn
        belief_obs == read_beliefs_window(log, session_id, start_turn, end_turn)
        created == CreateNewBeliefs(places, belief_obs, turn)
        updated == UpdateExistingBeliefs(created, belief_obs, policy, turn)
        tv == WithInitialBaseline(trait_vector)
        debug == [updated_beliefs |-> UpdatedBeliefs(places, created, belief_obs, policy),
                  turn |-> turn]
    IN  [places |-> updated,
         trait_vector |-> tv,
         belief_obs |-> belief_obs,
         drift_record |-> [turn |-> turn,
                           stable_trait_drift_L2 |-> DriftL2(tv),
                           updated_beliefs |-> debug.updated_beliefs],
         debug |-> debug]

----------------------------------------------------------------------------
(* StateStore *)

\* load_rules: the four rule files, and emotion_trait with its defaults
load_rules(event_emotion, emotion_trait_nudges, update_policy, taxonomy) ==
    [event_emotion |-> event_emotion,
     emotion_trait_nudges |-> emotion_trait_nudges,
     update_policy |-> update_policy,
     event_taxonomy |-> taxonomy,
     emotion_trait |->
        [emotion_decay |-> Get(emotion_trait_nudges, "emotion_decay", 750),
         trait_return_to_baseline |->
            Get(emotion_trait_nudges, "trait_return_to_baseline", 850),
         per_turn_trait_cap |->
            Get(emotion_trait_nudges, "per_turn_trait_cap", 50)]]

\* the directory of counters.json and vectors.json, as path components under
\* the root: the files the variables counters and vectors stand for
StateDir == <<"state">>

\* the files the variables episodic_log and belief_log stand for
EpisodicFile == <<"memory", "episodic_memory.jsonl">>
BeliefFile == <<"memory", "belief_observations.jsonl">>

\* mutant of _session_dir: one directory per session
_session_dir_PerSession(session_id) == <<"state", session_id>>

\* StateStore._session_dir: self.root / "state"
_session_dir(session_id) == <<"state">>

\* MemoryStore._mem_file and MemoryStore._belief_file
_mem_file(session_id) == <<"memory", "episodic_memory.jsonl">>
_belief_file(session_id) == <<"memory", "belief_observations.jsonl">>

\* update_dynamic: a non-empty note is appended to recent_discoveries
update_dynamic(dynamic, extracted, rls) ==
    IF extracted.notes # <<>>
    THEN [dynamic EXCEPT !.recent_discoveries = Append(@, extracted.notes)]
    ELSE dynamic

----------------------------------------------------------------------------
(* reset_personality.main: the state a reset leaves *)

EMOTIONS_8 == {"joy", "trust", "fear", "surprise", "sadness", "disgust",
               "anger", "anticipation"}

\* clamp_trait_dict
clamp_trait_dict(d) == [k \in DOMAIN d |-> clamp(d[k], 0, One)]

\* a value json.load returns for a key of the stored baseline
Number(n) == [type |-> "number", value |-> n, text |-> ""]
String(t) == [type |-> "string", value |-> 0, text |-> t]
Null == [type |-> "null", value |-> 0, text |-> ""]

\* the strings float() converts, with their value in thousandths
NumericText == {"0.6", "1.3"}
FloatOfText(t) == CASE t = "0.6" -> 600 [] t = "1.3" -> 1300

\* float(v) returns: a number, or a string that spells one; float(None)
\* raises TypeError and float("high") raises ValueError
Convertible(v) ==
    \/ v.type = "number"
    \/ v.type = "string" /\ v.text \in NumericText

\* float(v)
float(v) == IF v.type = "number" THEN v.value ELSE FloatOfText(v.text)

\* mutant of NumericEntries: a value float() rejects is taken as 0.0
NumericEntries_ZeroForInvalid(d) ==
    [k \in DOMAIN d |-> IF Convertible(d[k]) THEN float(d[k]) ELSE 0]

\* the loop of clamp_trait_dict before the clamp: the keys whose value float()
\* converts, with the float; the other keys are skipped by `except: continue`
NumericEntries(d) ==
    [k \in {key \in DOMAIN d : Convertible(d[key])} |-> float(d[k])]

\* json.dump of vectors_new: the trait scores become JSON numbers
write_json_vectors(vectors_new) ==
    [vectors_new EXCEPT !.trait_vector =
        [f \in DOMAIN @ |-> [k \in DOMAIN @[f] |-> Number(@[f][k])]]]

ResetCounters(rum_window) ==
    [current_turn |-> 0,
     last_rumination_turn |-> 0,
     rumination_window_size |-> rum_window,
     turns_since_last_rumination |-> 0]

ResetVectors(baseline_old) ==
    [turn |-> 0,
     trait_vector |-> [baseline |-> clamp_trait_dict(baseline_old),
                       current |-> clamp_trait_dict(baseline_old),
                       initial_baseline |-> clamp_trait_dict(baseline_old)],
     emotion_vector |-> [e \in EMOTIONS_8 |-> Neutral]]

\* dynamic_new (the fields the pipeline reads or writes) and cleared beliefs
ResetPersona ==
    [stable |-> [stable_beliefs |-> [places |-> EmptyDict]],
     dynamic |-> [recent_discoveries |-> <<>>, last_entity_focus |-> None]]

----------------------------------------------------------------------------
(* StableMindAgent.step *)

\* the reply of the language model
Reply == "reply"

\* counters["current_turn"] += 1; counters["turns_since_last_rumination"] += 1
IncrementCounters_TurnNotCounted(c) ==
    [c EXCEPT !.turns_since_last_rumination = @ + 1]

IncrementCounters(c) ==
    [c EXCEPT !.current_turn = @ + 1,
              !.turns_since_last_rumination = @ + 1]

\* the guard of the consolidation, on the counters after the increment
RuminationDue_Late(c) ==
    c.turns_since_last_rumination > c.rumination_window_size

RuminationDue(c) ==
    c.turns_since_last_rumination >= c.rumination_window_size

\* the counters after a consolidation of turn `turn`
\* mutant of AfterRumination: the turn of the run is not recorded
AfterRumination_KeepsStamp(c, turn) ==
    [c EXCEPT !.turns_since_last_rumination = 0]

AfterRumination_KeepsCount(c, turn) ==
    [c EXCEPT !.last_rumination_turn = turn]

AfterRumination(c, turn) ==
    [c EXCEPT !.turns_since_last_rumination = 0,
              !.last_rumination_turn = turn]

\* vectors["trait_vector"]["current"] = the vector apply_emotion_nudges returns
WithCurrent_IntoBaseline(trait_vector, current) ==
    [trait_vector EXCEPT !.baseline = current]

WithCurrent(trait_vector, current) ==
    [trait_vector EXCEPT !.current = current]

\* mutant of WithPersonaFocus: a last_entity_focus the caller passed is kept
WithPersonaFocus_CallerFirst(context, p) ==
    [k \in (DOMAIN context) \cup {"last_entity_focus"} |->
        IF k \in DOMAIN context THEN context[k]
        ELSE p.dynamic.last_entity_focus]

\* the engines of StableMindAgent.__init__: EventExtractor(root_dir) keeps the
\* taxonomy it read from rules/event_taxonomy.json in self.taxonomy;
\* EmotionEngine() and TraitEngine() have no attribute
NewEngines(taxonomy) ==
    [event_extractor |-> [taxonomy |-> taxonomy],
     emotion_engine |-> EmptyDict,
     trait_engine |-> EmptyDict]

\* context["last_entity_focus"] = persona["dynamic"].get("last_entity_focus")
WithPersonaFocus(context, p) ==
    [k \in (DOMAIN context) \cup {"last_entity_focus"} |->
        IF k = "last_entity_focus" THEN p.dynamic.last_entity_focus
        ELSE context[k]]

\* lines 49-80 of step, on the objects loaded: what the invocation holds when
\* it comes to append_episode.  `logged` counts the turns taken of the loop at
\* line 91; rumination_ran and rumination (rumination_debug) are as lines
\* 94-95 set them; drift_record and run_debug are locals of
\* RuminationEngine.run
Worked(user_message, session_id, context, c, v, p, rls) ==
    LET ctx == WithPersonaFocus(context, p)
        c1 == IncrementCounters(c)
        extracted == EventExtractor_extract(user_message, ctx,
                                            engines.event_extractor.taxonomy)
        dynamic1 == IF extracted.entities # <<>>
                    THEN [p.dynamic EXCEPT !.last_entity_focus =
                            extracted.entities[Len(extracted.entities)]]
                    ELSE p.dynamic
        emotion == EmotionEngine_update(v.emotion_vector, extracted.events, rls)
        current == TraitEngine_apply_emotion_nudges(
                       v.trait_vector.baseline, v.trait_vector.current, emotion, rls)
    IN  [session_id |-> session_id,
         context |-> ctx,
         counters |-> c1,
         vectors |-> [v EXCEPT !.emotion_vector = emotion,
                               !.trait_vector = WithCurrent(v.trait_vector, current)],
         persona |-> [stable |-> p.stable,
                      dynamic |-> update_dynamic(dynamic1, extracted, rls)],
         turn |-> c1.current_turn,
         extracted |-> extracted,
         logged |-> 0,
         rumination_ran |-> FALSE,
         rumination |-> EmptyDict,
         drift_record |-> EmptyDict,
         run_debug |-> EmptyDict]

\* StepResult(text=reply, turn=turn, debug=debug) (agent.py 137-145)
StepResult(held) ==
    [text |-> Reply,
     turn |-> held.turn,
     debug |-> [events |-> held.extracted.events,
                belief_observations |-> held.extracted.belief_observations,
                emotion_vector |-> held.vectors.emotion_vector,
                trait_current |-> held.vectors.trait_vector.current,
                rumination_ran |-> held.rumination_ran,
                rumination |-> held.rumination]]

----------------------------------------------------------------------------
(* Bounds and inputs *)

\* steps taken in one behaviour
MaxTurns == 4

\* the user messages tried
Messages == {
    <<"hello">>,
    <<"won">>,
    <<"moon", "cafe", "loud">>,
    <<"moon", "cafe", "calm">>,
    <<"sun", "cafe", "quiet">>,
    <<"there", "loud">>,
    <<"it", "quiet">> }

\* the defaults of step: session_id = "default", context = None (made {})
DefaultSession == "default"

\* the invocations of step that can be in progress at once
CallIds == {"first", "second"}

\* an invocation that holds nothing: not started.  `passed` is the value of
\* the context argument at the call, `held` the local variables of step (its
\* `context` is the caller's dict once line 50 has written into it)
Idle == [pc |-> "idle", user_message |-> <<>>, passed |-> EmptyDict, held |-> <<>>]

NoCalls == [id \in CallIds |-> Idle]

NoContext == EmptyDict

\* the files reset_personality.py copies to <name>.bak before it writes
BackupFiles == {"stable_traits.json", "dynamic_traits.json", "counters.json",
                "vectors.json"}

\* no .bak file yet; a .bak file is the one-element sequence of its content
NoBackups == [f \in BackupFiles |-> <<>>]

\* what a state or persona file holds: "json", the text of a json.dump;
\* "empty", between the open(path, "w") of a save and its write; "garbled",
\* the text of one save over the longer text of another
AllJson == [f \in BackupFiles |-> "json"]

\* counters.json: rumination_window_size
WindowSizes == {0, 1, 2}

\* update_policy.json: rumination_window_turns
WindowTurns == {1, 2}

\* update_policy.json: stable_baseline_update
Policies == {
    [min_contradict_count |-> 1, min_contradict_rate |-> 600, smoothing_alpha |-> 500],
    [min_contradict_count |-> 2, min_contradict_rate |-> 500, smoothing_alpha |-> 200] }

\* event_emotion_deltas.json
EventEmotion ==
    [ev \in {"major_achievement"} |->
        [emo \in {"joy", "sadness"} |-> IF emo = "joy" THEN 200 ELSE -100]]

\* emotion_trait_nudges.json
EmotionTraitNudges ==
    [coefficients_centered |->
        [t \in {"openness"} |->
            [emo \in {"joy", "fear"} |-> IF emo = "joy" THEN 300 ELSE -300]],
     per_turn_trait_cap |-> 50,
     trait_return_to_baseline |-> 850,
     emotion_decay |-> 750]

\* event_taxonomy.json
Taxonomy == [event_types |-> <<[tag |-> "greeting", keys |-> {"hello"}]>>]

\* vectors.json: trait_vector.baseline before the reset
BaselineOld == [t \in {"openness", "warmth"} |-> IF t = "openness" THEN 600 ELSE 300]

\* vectors.json: trait_vector.baseline at the time initial_baseline was taken,
\* for a file whose baseline was edited since
EarlierBaseline == [t \in {"openness", "warmth"} |-> IF t = "openness" THEN 500 ELSE 300]

\* the vectors.json files the agent starts from
VectorFiles == {"reset", "no initial_baseline", "baseline edited"}

----------------------------------------------------------------------------
(* The agent: steps on the state a reset left *)

\* a vectors.json written by hand has no initial_baseline yet
WithoutInitialBaseline(v) ==
    [v EXCEPT !.trait_vector =
        [f \in {"baseline", "current"} |-> v.trait_vector[f]]]

\* a vectors.json whose initial_baseline was taken from an earlier baseline
WithInitialBaselineOf(v, earlier) ==
    [v EXCEPT !.trait_vector.initial_baseline = clamp_trait_dict(earlier)]

NoResult == [text |-> "", turn |-> 0, debug |-> EmptyDict]

Init ==
    /\ \E w \in WindowSizes : counters = ResetCounters(w)
    /\ \E file \in VectorFiles :
          vectors = CASE file = "reset" -> ResetVectors(BaselineOld)
                      [] file = "no initial_baseline" ->
                            WithoutInitialBaseline(ResetVectors(BaselineOld))
                      [] file = "baseline edited" ->
                            WithInitialBaselineOf(ResetVectors(BaselineOld),
                                                  EarlierBaseline)
    /\ persona = ResetPersona
    /\ \E wt \in WindowTurns, policy \in Policies :
          rules = load_rules(EventEmotion, EmotionTraitNudges,
                      [rumination_window_turns |-> wt,
                       stable_baseline_update |-> policy],
                      Taxonomy)
    /\ belief_log = <<>>
    /\ episodic_log = <<>>
    /\ drift_log = <<>>
    /\ result = NoResult
    /\ last_op = "init"
    /\ calls = NoCalls
    /\ backups = NoBackups
    /\ disk = AllJson
    /\ engines = NewEngines(rules.event_taxonomy)

\* StableMindAgent.step takes no lock, and neither do StateStore and
\* MemoryStore: between any two file operations of one invocation another
\* invocation can run.  An invocation is the sequence of its file operations,
\* each an action below together with the code that runs in memory up to the
\* next one.  The files no step writes (immutable_traits.json, anchors.json,
\* rules/*.json) are read with the operation next to them.
\*
\* A load is open() and json.load: it raises JSONDecodeError on a file that is
\* empty or garbled.  A save is open(path, "w"), which empties the file, and
\* the write of the text when the file is closed (the text of a state file is
\* shorter than the buffer of the file object).  An append is one write of one
\* line.

\* _read_json: the file holds the text of a json.dump
Readable(file) == disk[file] = "json"

\* the local variables of the invocation id
Held(id) == calls[id].held[1]

\* the invocation id goes on to the operation pc holding `held`
GoesOn(id, pc, held) ==
    calls' = [calls EXCEPT ![id] = [@ EXCEPT !.pc = pc, !.held = <<held>>]]

\* an invocation that raised, and one that returned its result, to the caller
\* of a session
RaisedCall(session_id) ==
    [pc |-> "raised", user_message |-> <<>>, passed |-> EmptyDict,
     held |-> <<[session_id |-> session_id]>>]

ReturnedCall(session_id) ==
    [pc |-> "returned", user_message |-> <<>>, passed |-> EmptyDict,
     held |-> <<[session_id |-> session_id]>>]

\* the exception of a load leaves step
LoadRaises(id) ==
    /\ calls' = [calls EXCEPT ![id] = RaisedCall(Held(id).session_id)]
    /\ last_op' = "load raised"

\* no invocation of this caller is in progress
Ended(id) == calls[id].pc \in {"idle", "returned", "raised"}

\* step is called; load_persona reads immutable_traits.json and
\* stable_traits.json (agent.py 45, io_state.py 12-13)
LoadsStable(id, user_message, session_id, context) ==
    /\ Ended(id)
    /\ IF Readable("stable_traits.json")
       THEN /\ calls' = [calls EXCEPT ![id] =
                            [pc |-> "load dynamic",
                             user_message |-> user_message,
                             passed |-> context,
                             held |-> <<[session_id |-> session_id,
                                         context |-> context,
                                         stable |-> persona.stable]>>]]
            /\ last_op' = "load stable"
       ELSE /\ calls' = [calls EXCEPT ![id] = RaisedCall(session_id)]
            /\ last_op' = "load raised"
    /\ UNCHANGED <<counters, vectors, persona, rules, belief_log, episodic_log,
                   drift_log, result, backups, disk, engines>>

\* load_persona reads dynamic_traits.json and anchors.json, load_rules reads
\* the rules (io_state.py 14-16, agent.py 46)
LoadsDynamic(id) ==
    /\ calls[id].pc = "load dynamic"
    /\ IF Readable("dynamic_traits.json")
       THEN /\ GoesOn(id, "load vectors",
                      [session_id |-> Held(id).session_id,
                       context |-> Held(id).context,
                       persona |-> [stable |-> Held(id).stable,
                                    dynamic |-> persona.dynamic]])
            /\ last_op' = "load dynamic"
       ELSE LoadRaises(id)
    /\ UNCHANGED <<counters, vectors, persona, rules, belief_log, episodic_log,
                   drift_log, result, backups, disk, engines>>

\* load_vectors (agent.py 47): open() raises when the directory of the session
\* has no vectors.json
LoadsVectors(id) ==
    /\ calls[id].pc = "load vectors"
    /\ IF _session_dir(Held(id).session_id) = StateDir /\ Readable("vectors.json")
       THEN /\ GoesOn(id, "load counters",
                      [session_id |-> Held(id).session_id,
                       context |-> Held(id).context,
                       persona |-> Held(id).persona,
                       vectors |-> vectors])
            /\ last_op' = "load vectors"
       ELSE LoadRaises(id)
    /\ UNCHANGED <<counters, vectors, persona, rules, belief_log, episodic_log,
                   drift_log, result, backups, disk, engines>>

\* load_counters, and the work in memory up to the first append (agent.py
\* 48-80)
LoadsCounters(id) ==
    /\ calls[id].pc = "load counters"
    /\ IF _session_dir(Held(id).session_id) = StateDir /\ Readable("counters.json")
       THEN /\ GoesOn(id, "append episode",
                      Worked(calls[id].user_message, Held(id).session_id,
                             Held(id).context, counters, Held(id).vectors,
                             Held(id).persona, rules))
            /\ last_op' = "load counters"
       ELSE LoadRaises(id)
    /\ UNCHANGED <<counters, vectors, persona, rules, belief_log, episodic_log,
                   drift_log, result, backups, disk, engines>>

\* the operation after an append: the next observation of the loop at line 91,
\* the consolidation when line 98 finds it due, the language model otherwise
AfterAppend(held) ==
    IF held.logged < Len(held.extracted.belief_observations)
    THEN "append observation"
    ELSE IF RuminationDue(held.counters) THEN "read window" ELSE "generate"

\* append_episode (agent.py 83-90)
AppendsEpisode(id) ==
    /\ calls[id].pc = "append episode"
    /\ episodic_log' = IF _mem_file(Held(id).session_id) = EpisodicFile
                        THEN append_episode(episodic_log, Held(id).session_id,
                                            Held(id).turn)
                        ELSE episodic_log
    /\ GoesOn(id, AfterAppend(Held(id)), Held(id))
    /\ last_op' = "append_episode"
    /\ UNCHANGED <<counters, vectors, persona, rules, belief_log, drift_log,
                   result, backups, disk, engines>>

\* one turn of the loop `for ob in belief_obs` (agent.py 91-92)
AppendsObservation(id) ==
    /\ calls[id].pc = "append observation"
    /\ belief_log' =
          IF _belief_file(Held(id).session_id) = BeliefFile
          THEN append_belief_observation(
                   belief_log, Held(id).session_id, Held(id).turn,
                   Held(id).extracted.belief_observations[Held(id).logged + 1])
          ELSE belief_log
    /\ \E held \in {[Held(id) EXCEPT !.logged = @ + 1]} :
          GoesOn(id, AfterAppend(held), held)
    /\ last_op' = "append_belief_observation"
    /\ UNCHANGED <<counters, vectors, persona, rules, episodic_log, drift_log,
                   result, backups, disk, engines>>

\* the guard of line 98 held: rumination_engine.run reads the window of the
\* log as it is now and works on the persona and vectors of the invocation
\* (agent.py 98-107, engines.py 88-215)
ReadsWindow(id) ==
    /\ calls[id].pc = "read window"
    /\ \E run \in {RuminationEngine_run(
                      Held(id).session_id,
                      Held(id).persona.stable.stable_beliefs.places,
                      Held(id).vectors.trait_vector, rules, belief_log,
                      Held(id).turn)} :
          GoesOn(id, "append drift",
                 [Held(id) EXCEPT
                    !.rumination_ran = TRUE,
                    !.persona.stable.stable_beliefs.places = run.places,
                    !.vectors.trait_vector = run.trait_vector,
                    !.drift_record = run.drift_record,
                    !.run_debug = run.debug])
    /\ last_op' = "read_beliefs_window"
    /\ UNCHANGED <<counters, vectors, persona, rules, belief_log, episodic_log,
                   drift_log, result, backups, disk, engines>>

\* _append_drift_log, the return of run and the reset of the counter
\* (engines.py 217-223, agent.py 100, 108-120)
AppendsDrift(id) ==
    /\ calls[id].pc = "append drift"
    /\ drift_log' = Append(drift_log, Held(id).drift_record)
    /\ GoesOn(id, "generate",
              [Held(id) EXCEPT
                 !.rumination = Held(id).run_debug,
                 !.counters = AfterRumination(@, Held(id).turn)])
    /\ last_op' = "_append_drift_log"
    /\ UNCHANGED <<counters, vectors, persona, rules, belief_log, episodic_log,
                   result, backups, disk, engines>>

\* prompt_builder.build or llm.generate raises (agent.py 111-124): the saves
\* and the append of the reply are not reached, and the caller gets no result
StepRaises(id) ==
    /\ calls[id].pc = "generate"
    /\ calls' = [calls EXCEPT ![id] = RaisedCall(Held(id).session_id)]
    /\ last_op' = "step raised"
    /\ UNCHANGED <<counters, vectors, persona, rules, belief_log, episodic_log,
                   drift_log, result, backups, disk, engines>>

\* open(path, "w") of a save: the file is emptied
Opens(id, pc, file, next) ==
    /\ calls[id].pc = pc
    /\ disk' = [disk EXCEPT ![file] = "empty"]
    /\ GoesOn(id, next, Held(id))
    /\ last_op' = "open"
    /\ UNCHANGED <<counters, vectors, persona, rules, belief_log, episodic_log,
                   drift_log, result, backups, engines>>

\* what a file holds after the text of a save is written at its start: the
\* text when the file is still as the open of this save left it, empty; when
\* another save has written since, the text if it is at least as long as what
\* the file holds and a garbled file, the text and the rest of the longer one,
\* if it is shorter.  The texts of the vectors and of the persona are those of
\* doubles and strings the model does not carry, so both are outcomes
AfterWrite(file) ==
    IF disk[file] = "empty" THEN {"json"} ELSE {"json", "garbled"}

\* the number of characters json.dump writes for an int
RECURSIVE Digits(_)
Digits(n) ==
    IF n < 0 THEN 1 + Digits(0 - n)
    ELSE IF n < 10 THEN 1
    ELSE 1 + Digits(n \div 10)

\* the length of the text of counters.json, less that of its keys and
\* punctuation, which is the same for every counters dict
JsonWidth(c) ==
    Digits(c.current_turn) + Digits(c.last_rumination_turn)
        + Digits(c.rumination_window_size) + Digits(c.turns_since_last_rumination)

\* llm.generate has returned; save_vectors opens vectors.json (agent.py
\* 124-130, io_state.py 85-86)
OpensVectors(id) == Opens(id, "generate", "vectors.json", "write vectors")

\* json.dump and close of save_vectors (io_state.py 87)
WritesVectors(id) ==
    /\ calls[id].pc = "write vectors"
    /\ \E outcome \in AfterWrite("vectors.json") :
          disk' = [disk EXCEPT !["vectors.json"] = outcome]
    /\ vectors' = Held(id).vectors
    /\ GoesOn(id, "open counters", Held(id))
    /\ last_op' = "save_vectors"
    /\ UNCHANGED <<counters, persona, rules, belief_log, episodic_log,
                   drift_log, result, backups, engines>>

\* save_counters (agent.py 131)
OpensCounters(id) == Opens(id, "open counters", "counters.json", "write counters")

\* json.dump and close of save_counters (io_state.py 87).  The text of the
\* counters differs from one dict to another in its digits only.  `counters`
\* is what the last whole text said; while the file is garbled it is the
\* longer text, whose length the file still has
WritesCounters(id) ==
    /\ calls[id].pc = "write counters"
    /\ IF disk["counters.json"] = "empty"
          \/ JsonWidth(Held(id).counters) >= JsonWidth(counters)
       THEN /\ counters' = Held(id).counters
            /\ disk' = [disk EXCEPT !["counters.json"] = "json"]
       ELSE /\ counters' = counters
            /\ disk' = [disk EXCEPT !["counters.json"] = "garbled"]
    /\ GoesOn(id, "open stable", Held(id))
    /\ last_op' = "save_counters"
    /\ UNCHANGED <<vectors, persona, rules, belief_log, episodic_log,
                   drift_log, result, backups, engines>>

\* save_persona: stable_traits.json (agent.py 132, io_state.py 20)
OpensStable(id) == Opens(id, "open stable", "stable_traits.json", "write stable")

WritesStable(id) ==
    /\ calls[id].pc = "write stable"
    /\ \E outcome \in AfterWrite("stable_traits.json") :
          disk' = [disk EXCEPT !["stable_traits.json"] = outcome]
    /\ persona' = [persona EXCEPT !.stable = Held(id).persona.stable]
    /\ GoesOn(id, "open dynamic", Held(id))
    /\ last_op' = "save stable"
    /\ UNCHANGED <<counters, vectors, rules, belief_log, episodic_log,
                   drift_log, result, backups, engines>>

\* save_persona: dynamic_traits.json (io_state.py 21)
OpensDynamic(id) == Opens(id, "open dynamic", "dynamic_traits.json", "write dynamic")

WritesDynamic(id) ==
    /\ calls[id].pc = "write dynamic"
    /\ \E outcome \in AfterWrite("dynamic_traits.json") :
          disk' = [disk EXCEPT !["dynamic_traits.json"] = outcome]
    /\ persona' = [persona EXCEPT !.dynamic = Held(id).persona.dynamic]
    /\ GoesOn(id, "append reply", Held(id))
    /\ last_op' = "save dynamic"
    /\ UNCHANGED <<counters, vectors, rules, belief_log, episodic_log,
                   drift_log, result, backups, engines>>

\* append_agent_reply and the return of the StepResult (agent.py 135-145)
AppendsReply(id) ==
    /\ calls[id].pc = "append reply"
    /\ episodic_log' = IF _mem_file(Held(id).session_id) = EpisodicFile
                        THEN append_agent_reply(episodic_log, Held(id).session_id,
                                                Held(id).turn)
                        ELSE episodic_log
    /\ result' = StepResult(Held(id))
    /\ calls' = [calls EXCEPT ![id] = ReturnedCall(Held(id).session_id)]
    /\ last_op' = "step"
    /\ UNCHANGED <<counters, vectors, persona, rules, belief_log, drift_log,
                   backups, disk, engines>>

\* the invocation id takes its next file operation
StepGoesOn(id) ==
    \/ LoadsDynamic(id)
    \/ LoadsVectors(id)
    \/ LoadsCounters(id)
    \/ AppendsEpisode(id)
    \/ AppendsObservation(id)
    \/ ReadsWindow(id)
    \/ AppendsDrift(id)
    \/ OpensVectors(id)
    \/ WritesVectors(id)
    \/ OpensCounters(id)
    \/ WritesCounters(id)
    \/ OpensStable(id)
    \/ WritesStable(id)
    \/ OpensDynamic(id)
    \/ WritesDynamic(id)
    \/ AppendsReply(id)

\* one caller, one step at a time, with the defaults of step
Next ==
    \/ /\ Ended("first")
       /\ counters.current_turn < MaxTurns
       /\ \E user_message \in Messages :
             LoadsStable("first", user_message, DefaultSession, NoContext)
    \/ StepGoesOn("first")

Spec == Init /\ [][Next]_vars

----------------------------------------------------------------------------
(* The Emotion Updater alone: EmotionEngine.update on arbitrary vectors,      *)
(* event lists and delta tables                                               *)

\* calls of one engine in one behaviour
MaxCalls == 2

\* longest event list passed to update
MaxEvents == 2

EmotionNames == {"joy", "fear"}

\* incoming emotion values, in and out of [0,1]
EmotionValues == {-500, 400, 1500}

\* deltas of the table
DeltaValues == {-700, 300}

EventTags == {"e1", "e2"}

\* the dicts over some non-empty subset of keys, with values in vals
DictsOver(keys, vals) ==
    UNION {[d -> vals] : d \in (SUBSET keys) \ {{}}}

\* a delta table: any row for e1, a row over both emotions for e2
DeltaTable(row) ==
    [ev \in EventTags |->
        IF ev = "e1" THEN row
        ELSE [emo \in EmotionNames |-> IF emo = "joy" THEN 300 ELSE -700]]

\* event lists: known tags and one tag the table does not have
EventLists ==
    UNION {[1..n -> EventTags \cup {"unlisted"}] : n \in 0..MaxEvents}

InitEmotion ==
    /\ counters = ResetCounters(0)
    /\ \E emotion \in DictsOver(EmotionNames, EmotionValues) :
          vectors = [ResetVectors(BaselineOld) EXCEPT !.emotion_vector = emotion]
    /\ persona = ResetPersona
    /\ \E row \in DictsOver(EmotionNames, DeltaValues) :
          rules = load_rules(DeltaTable(row), EmotionTraitNudges,
                      [rumination_window_turns |-> 1,
                       stable_baseline_update |-> CHOOSE pol \in Policies : TRUE],
                      Taxonomy)
    /\ belief_log = <<>>
    /\ episodic_log = <<>>
    /\ drift_log = <<>>
    /\ result = NoResult
    /\ last_op = "init"
    /\ calls = NoCalls
    /\ backups = NoBackups
    /\ disk = AllJson
    /\ engines = NewEngines(rules.event_taxonomy)

\* one call emotion_engine.update(emotion, events, rules); the vector it
\* returns becomes the emotion vector, as in step
EmotionTurn(events) ==
    LET returned == EmotionEngine_update(vectors.emotion_vector, events, rules)
    IN  /\ counters.current_turn < MaxCalls
        /\ counters' = [counters EXCEPT !.current_turn = @ + 1]
        /\ vectors' = [vectors EXCEPT !.emotion_vector = returned]
        /\ result' = [emotion |-> vectors.emotion_vector, events |-> events,
                      returned |-> returned]
        /\ last_op' = "EmotionEngine.update"
        /\ UNCHANGED <<persona, rules, belief_log, episodic_log, drift_log, calls, backups, disk, engines>>

NextEmotion == \E events \in EventLists : EmotionTurn(events)

SpecEmotion == InitEmotion /\ [][NextEmotion]_vars

InUnit(x) == 0 <= x /\ x <= One

\* C1: after every call of EmotionEngine.update, whatever the vector it started
\* from, the events and the delta table, every dimension of the returned
\* vector lies in [0,1]
C1_EmotionInRange ==
    last_op = "EmotionEngine.update" =>
        \A k \in DOMAIN vectors.emotion_vector : InUnit(vectors.emotion_vector[k])

\* C1 witness: a call that started out of range, applied a listed event, and
\* returned a dimension held at the upper bound
C1_Witness ==
    /\ last_op = "EmotionEngine.update"
    /\ \E k \in DOMAIN result.emotion : result.emotion[k] > One
    /\ \E i \in DOMAIN result.events : result.events[i] \in DOMAIN rules.event_emotion
    /\ \E k \in DOMAIN result.returned : result.returned[k] = One

----------------------------------------------------------------------------
(* The Trait Updater alone: TraitEngine.apply_emotion_nudges on arbitrary     *)
(* baseline, current and emotion vectors                                      *)

TraitNames == {"openness", "warmth"}

\* incoming baseline values, in and out of [0,1]
BaselineValues == {-200, 600, 1300}

\* incoming current values, in and out of [0,1]
CurrentValues == {-300, 500, 1400}

\* the joy of the emotion vector passed in
JoyValues == {0, 500, 1000, 1500}

\* weights of joy in the coefficient row of openness
JoyWeights == {-2000, 300, 2000}

InitTrait ==
    /\ counters = ResetCounters(0)
    /\ \E baseline \in DictsOver(TraitNames, BaselineValues),
          current \in DictsOver(TraitNames, CurrentValues) :
          vectors = [ResetVectors(BaselineOld) EXCEPT !.trait_vector =
                        [baseline |-> baseline, current |-> current]]
    /\ persona = ResetPersona
    /\ \E w \in JoyWeights :
          rules = load_rules(EventEmotion,
                      [EmotionTraitNudges EXCEPT !.coefficients_centered =
                          [t \in {"openness"} |-> [emo \in {"joy"} |-> w]]],
                      [rumination_window_turns |-> 1,
                       stable_baseline_update |-> CHOOSE pol \in Policies : TRUE],
                      Taxonomy)
    /\ belief_log = <<>>
    /\ episodic_log = <<>>
    /\ drift_log = <<>>
    /\ result = NoResult
    /\ last_op = "init"
    /\ calls = NoCalls
    /\ backups = NoBackups
    /\ disk = AllJson
    /\ engines = NewEngines(rules.event_taxonomy)

\* one call trait_engine.apply_emotion_nudges(baseline, current, emotion, rules);
\* the vector it returns becomes trait_vector.current, as in step
TraitTurn(joy) ==
    LET emotion == [vectors.emotion_vector EXCEPT !["joy"] = joy]
        returned == TraitEngine_apply_emotion_nudges(
                        vectors.trait_vector.baseline, vectors.trait_vector.current,
                        emotion, rules)
    IN  /\ counters.current_turn < MaxCalls
        /\ counters' = [counters EXCEPT !.current_turn = @ + 1]
        /\ vectors' = [vectors EXCEPT !.emotion_vector = emotion,
                                      !.trait_vector.current = returned]
        /\ result' = [baseline |-> vectors.trait_vector.baseline,
                      current |-> vectors.trait_vector.current,
                      emotion |-> emotion,
                      returned |-> returned]
        /\ last_op' = "TraitEngine.apply_emotion_nudges"
        /\ UNCHANGED <<persona, rules, belief_log, episodic_log, drift_log, calls, backups, disk, engines>>

NextTrait == \E joy \in JoyValues : TraitTurn(joy)

SpecTrait == InitTrait /\ [][NextTrait]_vars

\* C2 as claimed: after every call of apply_emotion_nudges every trait of the
\* returned current vector lies in [0,1], whatever came in
C2_AllTraitsInRange ==
    last_op = "TraitEngine.apply_emotion_nudges" =>
        \A t \in DOMAIN result.returned : InUnit(result.returned[t])

\* C2 amended: after every call every trait present in both current and
\* baseline lies in [0,1] whatever came in; a trait of current that the
\* baseline lacks is returned as it came in
C2_BaselineTraitsInRange ==
    last_op = "TraitEngine.apply_emotion_nudges" =>
        /\ DOMAIN result.returned = DOMAIN result.current
        /\ \A t \in DOMAIN result.returned :
              IF t \in DOMAIN result.baseline
              THEN InUnit(result.returned[t])
              ELSE result.returned[t] = result.current[t]

\* C2 witness: a call that got a trait of the baseline out of range and
\* returned it in range, beside a trait the baseline lacks
C2_Witness ==
    /\ last_op = "TraitEngine.apply_emotion_nudges"
    /\ \E t \in DOMAIN result.current :
          /\ t \in DOMAIN result.baseline
          /\ ~InUnit(result.current[t])
          /\ InUnit(result.returned[t])
    /\ \E t \in DOMAIN result.current : t \notin DOMAIN result.baseline

----------------------------------------------------------------------------
(* Counters and the firing of the consolidation, over the agent's steps *)

\* the step just taken ran the consolidation
Fired == last_op = "step" /\ result.debug.rumination_ran

\* the turns at which a consolidation ran: each run appends one drift record
FiringTurns == {drift_log[i].turn : i \in DOMAIN drift_log}

\* the local variables of the step of the one caller after the operation taken
Working == calls'["first"].held[1]

\* the drift record of the turn that counters.json now counts is logged
DriftLogged(log, c) ==
    Len(log) > 0 /\ log[Len(log)].turn = c.current_turn

\* C3 as stated: a step fires the consolidation if and only if the counter,
\* after the increment, equals the window size; a firing step leaves the counter
\* at 0 together with the consolidation result; no other step resets it
C3_FiresIffEqual ==
    [][LET since == counters.turns_since_last_rumination + 1
           due == since = counters.rumination_window_size
       IN  /\ drift_log' # drift_log <=> last_op' = "_append_drift_log"
           /\ last_op' = "_append_drift_log" =>
                /\ due
                /\ Len(drift_log') = Len(drift_log) + 1
           /\ last_op' = "save_counters" =>
                /\ Working.rumination_ran <=> due
                /\ Working.rumination_ran <=> DriftLogged(drift_log, counters')
                /\ Working.rumination_ran
                     => counters'.turns_since_last_rumination = 0
                /\ ~Working.rumination_ran
                     => counters'.turns_since_last_rumination = since
           /\ last_op' = "step" =>
                result'.debug.rumination_ran
                   <=> counters.turns_since_last_rumination = 0]_vars

\* C3 amended: a step fires the consolidation if and only if the counter,
\* after the increment, has reached or passed the window size; a firing step
\* leaves the counter at 0 together with the consolidation result; no other
\* step resets it.  The drift record of a firing step is appended before the
\* step calls the language model, the counter is saved after it
C3_FiresIffReached ==
    [][LET since == counters.turns_since_last_rumination + 1
           due == since >= counters.rumination_window_size
       IN  /\ drift_log' # drift_log <=> last_op' = "_append_drift_log"
           /\ last_op' = "_append_drift_log" =>
                /\ due
                /\ Len(drift_log') = Len(drift_log) + 1
           /\ last_op' = "save_counters" =>
                /\ Working.rumination_ran <=> due
                /\ Working.rumination_ran <=> DriftLogged(drift_log, counters')
                /\ Working.rumination_ran
                     => counters'.turns_since_last_rumination = 0
                /\ ~Working.rumination_ran
                     => counters'.turns_since_last_rumination = since
           /\ last_op' = "step" =>
                result'.debug.rumination_ran
                   <=> counters.turns_since_last_rumination = 0]_vars

\* C3 witness: a step that fired with the counter past the window size, after
\* an earlier firing
C3_Witness ==
    /\ Fired
    /\ counters.rumination_window_size = 0
    /\ counters.turns_since_last_rumination = 0
    /\ Len(drift_log) = 2
    /\ result.debug.rumination.turn = counters.current_turn

\* the turns whose step has come to the language model: those counted in
\* counters.json and the one of a step between its consolidation and
\* save_counters
TurnsBegun ==
    IF calls["first"].pc \in {"generate", "write vectors", "open counters",
                              "write counters"}
    THEN calls["first"].held[1].turn
    ELSE counters.current_turn

\* the turns up to now whose number is a positive multiple of w
PositiveMultiples(w) ==
    {t \in 1..TurnsBegun : \E k \in 1..t : t = k * w}

\* C4 as stated: from reset counters with window size W, whatever the steps
\* taken, the consolidation has fired exactly once in each turn that is a
\* positive multiple of W and in no other turn; right after a firing the
\* counter is 0 and last_rumination_turn is the current turn
C4_FiresAtMultiples ==
    /\ FiringTurns = PositiveMultiples(counters.rumination_window_size)
    /\ Len(drift_log) = Cardinality(FiringTurns)
    /\ Fired => /\ counters.turns_since_last_rumination = 0
                /\ counters.last_rumination_turn = counters.current_turn

\* C4 amended: as C4 for a window size W >= 1; with W = 0 the consolidation
\* has fired exactly once in every turn
C4_FiresAtMultiplesOrAlways ==
    /\ counters.rumination_window_size >= 1
         => FiringTurns = PositiveMultiples(counters.rumination_window_size)
    /\ counters.rumination_window_size = 0
         => FiringTurns = 1..TurnsBegun
    /\ Len(drift_log) = Cardinality(FiringTurns)
    /\ Fired => /\ counters.turns_since_last_rumination = 0
                /\ counters.last_rumination_turn = counters.current_turn

\* C4 witness: with W = 2, the second firing, in turn 4
C4_Witness ==
    /\ Fired
    /\ counters.rumination_window_size = 2
    /\ counters.current_turn = 4
    /\ FiringTurns = {2, 4}
    /\ counters.last_rumination_turn = 4
\* C5: every completed step adds exactly 1 to the stored current_turn and
\* returns the new value as the turn of its result; no step lowers
\* current_turn or last_rumination_turn or changes rumination_window_size; a
\* step lowers turns_since_last_rumination only if it fires the consolidation.
\* The one write of counters.json in a step is that of save_counters
C5_CountersMonotonic ==
    [][/\ last_op' = "save_counters" =>
            /\ counters'.current_turn = counters.current_turn + 1
            /\ Working.turn = counters'.current_turn
            /\ counters'.turns_since_last_rumination < counters.turns_since_last_rumination
                 => Working.rumination_ran
       /\ last_op' # "save_counters" => counters' = counters
       /\ last_op' = "step" =>
            /\ result'.turn = counters.current_turn
            /\ counters.turns_since_last_rumination = 0
                 => result'.debug.rumination_ran
       /\ counters'.current_turn >= counters.current_turn
       /\ counters'.last_rumination_turn >= counters.last_rumination_turn
       /\ counters'.rumination_window_size = counters.rumination_window_size]_vars

\* C5 witness: a step that did not fire, taken after a firing one: the counter
\* has grown again, last_rumination_turn has stayed
C5_Witness ==
    /\ last_op = "step"
    /\ ~result.debug.rumination_ran
    /\ result.turn = 3
    /\ counters.current_turn = 3
    /\ counters.last_rumination_turn = 2
    /\ counters.turns_since_last_rumination = 1
\* C10: a step leaves an initial_baseline that is present as it is, component
\* by component; when it is absent, a step that fires the consolidation sets
\* it to the trait baseline, and a step that does not fire leaves it absent.
\* The one write of vectors.json in a step is that of save_vectors
C10_InitialBaselineSetOnce ==
    [][LET before == vectors.trait_vector
           after == vectors'.trait_vector
       IN  /\ "initial_baseline" \in DOMAIN before
                => /\ "initial_baseline" \in DOMAIN after
                   /\ after.initial_baseline = before.initial_baseline
           /\ last_op' = "save_vectors" =>
                /\ "initial_baseline" \notin DOMAIN before /\ Working.rumination_ran
                     => /\ "initial_baseline" \in DOMAIN after
                        /\ after.initial_baseline = before.baseline
                /\ "initial_baseline" \notin DOMAIN before /\ ~Working.rumination_ran
                     => "initial_baseline" \notin DOMAIN after
           /\ last_op' # "save_vectors" => after = before]_vars

\* C10 witness: a second consolidation has run on an initial_baseline that
\* differs from the baseline, and it is still the earlier baseline
C10_Witness ==
    /\ Fired
    /\ Len(drift_log) = 2
    /\ "initial_baseline" \in DOMAIN vectors.trait_vector
    /\ vectors.trait_vector.initial_baseline = clamp_trait_dict(EarlierBaseline)
    /\ vectors.trait_vector.initial_baseline # vectors.trait_vector.baseline
    /\ drift_log[2].stable_trait_drift_L2 > 0

\* the record the consolidation of the step just taken will have logged
LastDrift == drift_log'[Len(drift_log')].stable_trait_drift_L2

\* r is the Euclidean distance of two trait vectors, to the thousandth below
IsDistance(r, a, b) ==
    LET squares == SquaredDistance(a, b, DOMAIN a)
    IN  r >= 0 /\ r * r <= squares /\ squares < (r + 1) * (r + 1)

\* C11: the consolidation that captures initial_baseline logs a drift of 0;
\* every consolidation logs a drift that is not negative and is the Euclidean
\* distance between the baseline and initial_baseline over all traits
C11_DriftIsDistance ==
    [][last_op' = "_append_drift_log" =>
          /\ Len(drift_log') = Len(drift_log) + 1
          /\ LastDrift >= 0
          /\ IsDistance(LastDrift, Working.vectors.trait_vector.baseline,
                        Working.vectors.trait_vector.initial_baseline)
          /\ "initial_baseline" \notin DOMAIN vectors.trait_vector
                => LastDrift = 0]_vars

\* C11 witness: a second consolidation over a baseline 0.1 away from
\* initial_baseline, after turns that moved the current vector: both logged 0.1
C11_Witness ==
    /\ Fired
    /\ Len(drift_log) = 2
    /\ drift_log[1].stable_trait_drift_L2 = 100
    /\ drift_log[2].stable_trait_drift_L2 = 100
    /\ vectors.trait_vector.current # vectors.trait_vector.baseline

\* C12: a step in which the consolidation does not fire leaves every component
\* of trait_vector.baseline as it was; of the vectors it writes only
\* emotion_vector and trait_vector.current
C12_BaselineFrame ==
    [][/\ last_op' = "save_vectors" /\ ~Working.rumination_ran =>
            /\ vectors'.trait_vector.baseline = vectors.trait_vector.baseline
            /\ DOMAIN vectors' = DOMAIN vectors
            /\ DOMAIN vectors'.trait_vector = DOMAIN vectors.trait_vector
            /\ \A f \in (DOMAIN vectors) \ {"emotion_vector", "trait_vector"} :
                  vectors'[f] = vectors[f]
            /\ \A f \in (DOMAIN vectors.trait_vector) \ {"current"} :
                  vectors'.trait_vector[f] = vectors.trait_vector[f]
       /\ last_op' # "save_vectors" => vectors' = vectors]_vars

\* C12 witness: a step that did not fire has raised joy and moved the current
\* openness away from a baseline that is still the one of the start
C12_Witness ==
    /\ last_op = "step"
    /\ ~result.debug.rumination_ran
    /\ vectors.emotion_vector.joy > Neutral
    /\ vectors.trait_vector.current.openness > vectors.trait_vector.baseline.openness
    /\ vectors.trait_vector.baseline = clamp_trait_dict(BaselineOld)

----------------------------------------------------------------------------
(* The consolidation alone: RuminationEngine.run on stored beliefs of any     *)
(* confidence and on windows of observations                                  *)

\* turns taken in one behaviour of the consolidation alone
MaxRuns == 3

Observation(entity, value) ==
    [entity |-> entity, dimension |-> "noise_level", value |-> value]

\* the observations one turn logs: the extractor yields at most one per
\* message; a record with an empty entity is one the grouping skips
ObservationLists == {
    <<>>,
    <<Observation("Moon Cafe", NoisyValue)>>,
    <<Observation("Moon Cafe", QuietValue)>>,
    <<Observation("Sun Cafe", NoisyValue)>>,
    <<Observation("", NoisyValue)>> }

\* means and confidences of a belief stored by an earlier session
PriorMeans == {200, 500}

PriorConfidences == {0, 30, 600, 990, 1000}

PriorBelief(mean, confidence) ==
    [entity |-> "Moon Cafe",
     dimension |-> "noise_level",
     mean |-> mean,
     confidence |-> confidence,
     last_updated_turn |-> 0,
     evidence |-> [support_count_window |-> 5,
                   contradict_count_window |-> 0,
                   window_size |-> 5]]

\* persona.json: stable_beliefs.places, empty or with one stored belief
PriorPlaces ==
    {EmptyDict} \cup
    {[k \in {BeliefKey("Moon Cafe", "noise_level")} |-> PriorBelief(m, cf)] :
        m \in PriorMeans, cf \in PriorConfidences}

InitRumination ==
    /\ counters = ResetCounters(1)
    /\ vectors = ResetVectors(BaselineOld)
    /\ \E places \in PriorPlaces :
          persona = [ResetPersona EXCEPT !.stable.stable_beliefs.places = places]
    /\ \E wt \in WindowTurns, policy \in Policies :
          rules = load_rules(EventEmotion, EmotionTraitNudges,
                      [rumination_window_turns |-> wt,
                       stable_baseline_update |-> policy],
                      Taxonomy)
    /\ belief_log = <<>>
    /\ episodic_log = <<>>
    /\ drift_log = <<>>
    /\ result = NoResult
    /\ last_op = "init"
    /\ calls = NoCalls
    /\ backups = NoBackups
    /\ disk = AllJson
    /\ engines = NewEngines(rules.event_taxonomy)

\* a turn that logs its observations and does not consolidate
ObservationTurn(obs_list) ==
    /\ counters.current_turn < MaxRuns
    /\ counters' = [counters EXCEPT !.current_turn = @ + 1]
    /\ belief_log' = AppendObservations(belief_log, DefaultSession,
                                        counters.current_turn + 1, obs_list)
    /\ result' = NoResult
    /\ last_op' = "append_belief_observation"
    /\ UNCHANGED <<vectors, persona, rules, episodic_log, drift_log, calls, backups, disk, engines>>

\* a turn that logs its observations and then calls
\* rumination_engine.run(session_id, persona, vectors, rules, memory, turn);
\* the result keeps the beliefs as they were before the call
RuminationTurn(obs_list) ==
    /\ counters.current_turn < MaxRuns
    /\ \E turn \in {counters.current_turn + 1} :
       \E log \in {AppendObservations(belief_log, DefaultSession, turn, obs_list)} :
       \E run \in {RuminationEngine_run(DefaultSession,
                        persona.stable.stable_beliefs.places,
                        vectors.trait_vector, rules, log, turn)} :
          /\ counters' = [counters EXCEPT !.current_turn = turn]
          /\ belief_log' = log
          /\ persona' = [persona EXCEPT !.stable.stable_beliefs.places = run.places]
          /\ vectors' = [vectors EXCEPT !.trait_vector = run.trait_vector]
          /\ drift_log' = Append(drift_log, run.drift_record)
          /\ result' = [before |-> persona.stable.stable_beliefs.places,
                        turn |-> turn,
                        debug |-> run.debug]
    /\ last_op' = "RuminationEngine.run"
    /\ UNCHANGED <<rules, episodic_log, calls, backups, disk, engines>>

NextRumination ==
    \E obs_list \in ObservationLists :
        \/ ObservationTurn(obs_list)
        \/ RuminationTurn(obs_list)

SpecRumination == InitRumination /\ [][NextRumination]_vars
\* a consolidation has just returned
RanConsolidation == last_op = "RuminationEngine.run"

\* the beliefs after the run
PlacesNow == persona.stable.stable_beliefs.places

\* the window of the run just made: the logged records of the last
\* rumination_window_turns turns
InWindow(obj) ==
    /\ counters.current_turn - rules.update_policy.rumination_window_turns + 1
            <= obj.turn
    /\ obj.turn <= counters.current_turn

\* the window's records of one (entity, dimension), in log order
Matching(entity, dimension) ==
    SelectSeq(belief_log,
              LAMBDA obj : /\ InWindow(obj)
                           /\ obj.entity = entity
                           /\ obj.dimension = dimension)

\* C6: across a consolidation run, a belief that existed before the run keeps
\* its confidence if the window has no observation of it, and otherwise its
\* confidence moves by +0.02 or by -0.05, held inside [0,1]; it changes by no
\* other amount
C6_ConfidenceSteps ==
    RanConsolidation =>
        \A k \in DOMAIN result.before :
            LET old == result.before[k]
                new == PlacesNow[k]
            IN  /\ k \in DOMAIN PlacesNow
                /\ Matching(old.entity, old.dimension) = <<>>
                     => new.confidence = old.confidence
                /\ Matching(old.entity, old.dimension) # <<>>
                     => \/ new.confidence = Min(old.confidence + ReinforceStep, One)
                        \/ new.confidence = Max(old.confidence - ContradictStep, 0)

\* C6 witness: a run that contradicted a belief of confidence 0.03 and left
\* its confidence at 0
C6_Witness ==
    /\ RanConsolidation
    /\ \E k \in DOMAIN result.before :
          /\ result.before[k].confidence = 30
          /\ PlacesNow[k].confidence = 0
          /\ PlacesNow[k].mean # result.before[k].mean
\* C7: when a consolidation run returns, a belief it created has the mean of
\* its group's observed values, held inside [0,1], as mean, the initial
\* confidence 0.6, the current turn as last_updated_turn, and the group size
\* as support count and window size, with contradict count 0
C7_CreatedBelief ==
    RanConsolidation =>
        \A k \in (DOMAIN PlacesNow) \ (DOMAIN result.before) :
            LET belief == PlacesNow[k]
                values == ValuesOf(Matching(belief.entity, belief.dimension))
            IN  /\ belief.mean = clamp(Mean(values), 0, One)
                /\ belief.confidence = InitialConfidence
                /\ belief.last_updated_turn = counters.current_turn
                /\ belief.evidence.support_count_window = Len(values)
                /\ belief.evidence.contradict_count_window = 0
                /\ belief.evidence.window_size = Len(values)
\* the (entity, dimension) pairs the logged observations name
PlaceGroups == {<<"Moon Cafe", "noise_level">>, <<"Sun Cafe", "noise_level">>}

\* the run just made created a belief under key k
Created(k) == k \in DOMAIN PlacesNow /\ k \notin DOMAIN result.before

\* C8: a consolidation run creates the belief of an (entity, dimension) if and
\* only if its window holds at least 2 observations of that pair and no
\* belief was stored under the key before the run; it creates no other
\* belief, and the creation phase leaves a stored belief's entity, dimension
\* and evidence as they were
C8_CreatedIffEnough ==
    RanConsolidation =>
        /\ \A g \in PlaceGroups :
              Created(BeliefKey(g[1], g[2]))
                <=> /\ Len(Matching(g[1], g[2])) >= MIN_OBS_TO_CREATE
                    /\ BeliefKey(g[1], g[2]) \notin DOMAIN result.before
        /\ \A k \in DOMAIN PlacesNow :
              Created(k) => \E g \in PlaceGroups : k = BeliefKey(g[1], g[2])
        /\ \A k \in DOMAIN result.before :
              /\ k \in DOMAIN PlacesNow
              /\ PlacesNow[k].entity = result.before[k].entity
              /\ PlacesNow[k].dimension = result.before[k].dimension
              /\ PlacesNow[k].evidence = result.before[k].evidence

\* C8 witness: a run whose window holds two observations of a place without
\* a stored belief, which it created, beside a stored belief, which it kept
C8_Witness ==
    /\ RanConsolidation
    /\ BeliefKey("Moon Cafe", "noise_level") \in DOMAIN result.before
    /\ PlacesNow[BeliefKey("Moon Cafe", "noise_level")].evidence.window_size = 5
    /\ Created(BeliefKey("Sun Cafe", "noise_level"))
    /\ Len(Matching("Sun Cafe", "noise_level")) = MIN_OBS_TO_CREATE

\* the contradicting observations among those of a stored belief
ContradictingOf(old) ==
    ContradictCount(ValuesOf(Matching(old.entity, old.dimension)), old.mean)

\* both thresholds of the policy are met for a stored belief
BothThresholds(old) ==
    LET policy == rules.update_policy.stable_baseline_update
        total == Len(Matching(old.entity, old.dimension))
    IN  /\ ContradictingOf(old) >= policy.min_contradict_count
        /\ ContradictingOf(old) * One >= policy.min_contradict_rate * total

\* old_mean * (1 - alpha) + obs_mean * alpha
Blended(old) ==
    LET alpha == rules.update_policy.stable_baseline_update.smoothing_alpha
        obs_mean == Mean(ValuesOf(Matching(old.entity, old.dimension)))
    IN  (old.mean * (One - alpha) + obs_mean * alpha) \div One

\* C9: for a stored belief with an observation in the window, the run changes
\* the mean only if the contradict count and the contradict rate both reach
\* their thresholds; then the mean is the blend held inside [0,1], the
\* confidence is lowered by 0.05 and last_updated_turn is the current turn;
\* otherwise mean and last_updated_turn stay and the confidence is raised by
\* 0.02
C9_BlendsOnlyOnBothThresholds ==
    RanConsolidation =>
        \A k \in DOMAIN result.before :
            LET old == result.before[k]
                new == PlacesNow[k]
            IN  Matching(old.entity, old.dimension) # <<>> =>
                    /\ new.mean # old.mean => BothThresholds(old)
                    /\ BothThresholds(old) =>
                          /\ new.mean = clamp(Blended(old), 0, One)
                          /\ new.confidence = Max(old.confidence - ContradictStep, 0)
                          /\ new.last_updated_turn = counters.current_turn
                    /\ ~BothThresholds(old) =>
                          /\ new.mean = old.mean
                          /\ new.last_updated_turn = old.last_updated_turn
                          /\ new.confidence = Min(old.confidence + ReinforceStep, One)

\* C9 witness: a run that reinforced a stored belief although one of its two
\* observations contradicted it: the count threshold 1 was met, the rate
\* threshold 0.6 was not
C9_Witness ==
    /\ RanConsolidation
    /\ rules.update_policy.stable_baseline_update.min_contradict_count = 1
    /\ \E k \in DOMAIN result.before :
          /\ Len(Matching(result.before[k].entity, result.before[k].dimension)) = 2
          /\ ContradictingOf(result.before[k]) = 1
          /\ PlacesNow[k].mean = result.before[k].mean
          /\ PlacesNow[k].confidence = result.before[k].confidence + ReinforceStep

\* C13: after any sequence of consolidation runs over observations with values
\* in [0,1], every stored belief has its mean and its confidence in [0,1]
C13_BeliefsInRange ==
    \A k \in DOMAIN PlacesNow :
        InUnit(PlacesNow[k].mean) /\ InUnit(PlacesNow[k].confidence)

\* C13 witness: a second run in a row reinforced a belief whose confidence was
\* at the bound 1 already, and left it at 1
C13_Witness ==
    /\ RanConsolidation
    /\ Len(drift_log) >= 2
    /\ \E k \in DOMAIN result.before :
          /\ Matching(result.before[k].entity, result.before[k].dimension) # <<>>
          /\ result.before[k].confidence = One
          /\ PlacesNow[k].confidence = One
          /\ PlacesNow[k].mean = result.before[k].mean

----------------------------------------------------------------------------
(* Steps that fail: prompt_builder.build or llm.generate raises *)

\* steps taken, and steps that raise, in one behaviour with failures
MaxFailureTurns == 2

MaxFailures == 1

Episodes == {i \in DOMAIN episodic_log : episodic_log[i].kind = "episode"}

Replies == {i \in DOMAIN episodic_log : episodic_log[i].kind = "agent_reply"}

\* the operations of step before append_episode, and those after it
BeforeEpisode == {"load dynamic", "load vectors", "load counters", "append episode"}

AfterEpisode ==
    {"append observation", "read window", "append drift", "generate",
     "write vectors", "open counters", "write counters", "open stable",
     "write stable", "open dynamic", "write dynamic", "append reply"}

\* the steps that raised so far: each left an episode without an agent reply
\* (the episode of a step in progress is not one of them)
FailedSteps ==
    Cardinality(Episodes) - Cardinality(Replies)
        - Cardinality({id \in CallIds : calls[id].pc \in AfterEpisode})

InitFailure ==
    /\ Init
    /\ counters.rumination_window_size \in {1, 2}
    /\ rules.update_policy.rumination_window_turns = 1
    /\ rules.update_policy.stable_baseline_update.min_contradict_count = 1
    /\ vectors = ResetVectors(BaselineOld)

NextFailure ==
    \/ /\ Ended("first")
       /\ counters.current_turn < MaxFailureTurns
       /\ \E user_message \in Messages :
             LoadsStable("first", user_message, DefaultSession, NoContext)
    \/ StepGoesOn("first")
    \/ /\ FailedSteps < MaxFailures
       /\ StepRaises("first")

SpecFailure == InitFailure /\ [][NextFailure]_vars

\* C14: a step that fails after the extraction has persisted nothing: the
\* episodic log, the belief-observation log, the drift log, the counters, the
\* vectors and the persona are as they were before the step
\* (of the logs: they hold the records of the completed turns only)
C14_AllOrNothing ==
    [][last_op' = "step raised" =>
          /\ Len(episodic_log') = 2 * counters'.current_turn
          /\ \A i \in DOMAIN belief_log' :
                belief_log'[i].turn <= counters'.current_turn
          /\ \A i \in DOMAIN drift_log' :
                drift_log'[i].turn <= counters'.current_turn
          /\ counters' = counters
          /\ vectors' = vectors
          /\ persona' = persona]_vars

----------------------------------------------------------------------------
(* Two invocations of step on one session directory *)

\* Two callers, each in a thread of its own, call step on one session
\* directory; any file operation of one can come between two file operations
\* of the other.  A caller whose step raised does not call again.

\* invocations begun in one behaviour
MaxConcurrentSteps == 2

\* the user messages tried: an event and no observation, and an observation
\* of a named place
ConcurrentMessages == {
    <<"won">>,
    <<"moon", "cafe", "loud">> }

\* the invocations begun: each has appended its episode, or has not come to
\* it yet, or raised in a load
StepsBegun ==
    Cardinality(Episodes)
        + Cardinality({id \in CallIds : calls[id].pc \in BeforeEpisode \cup {"raised"}})

\* the steps that returned: each appended its agent reply last
CompletedSteps == Cardinality(Replies)

\* no invocation is in progress
AllEnded == \A id \in CallIds : Ended(id)

InitConcurrent ==
    /\ Init
    /\ counters.rumination_window_size \in {1, 2}
    /\ rules.update_policy.stable_baseline_update.min_contradict_count = 1
    /\ vectors = ResetVectors(BaselineOld)

NextConcurrent ==
    \/ /\ StepsBegun < MaxConcurrentSteps
       /\ \E id \in CallIds :
             /\ calls[id].pc # "raised"
             /\ \E user_message \in ConcurrentMessages :
                   LoadsStable(id, user_message, DefaultSession, NoContext)
    \/ \E id \in CallIds : StepGoesOn(id)

SpecConcurrent == InitConcurrent /\ [][NextConcurrent]_vars

\* C15: two invocations of step for one session never interleave their
\* load-modify-save, so no update is lost: current_turn has grown by one for
\* every step that returned (by exactly 2 after two completed steps)
C15_NoLostUpdate == AllEnded => counters.current_turn = CompletedSteps

----------------------------------------------------------------------------
(* The Signal Extractor, the Emotion Updater and the Trait Updater as calls   *)
(* on the caller's objects                                                    *)

\* A dict or a list of the program is an object, and a call receives the
\* caller's objects themselves.  `objs` maps the name of each object to what
\* it holds: the arguments under the parameter's name, the engine the method
\* is called on under `self`, an object made by the call under the name of
\* the function and of its local variable.  The engines outlive the calls
\* (variable `engines`), so what a call left in its engine is there for the
\* next one.

\* a new object, made by a dict display or by dict(...)
NewObject(objs, name, value) ==
    [n \in (DOMAIN objs) \cup {name} |-> IF n = name THEN value ELSE objs[n]]

\* item assignments into the object a variable refers to
Written(objs, name, value) == [objs EXCEPT ![name] = value]

\* mutant of Decayed: the decayed values are written into the dict passed in
Decayed_InPlace(objs, emotion, decay) ==
    [objs |-> Written(objs, emotion, DecayTowardNeutral(objs[emotion], decay)),
     emotion |-> emotion]

\* `emotion = {k: clamp(...) for k, v in emotion.items()}`: a new dict, and the
\* local name refers to it from here on
Decayed(objs, emotion, decay) ==
    [objs |-> NewObject(objs, "update.emotion",
                        DecayTowardNeutral(objs[emotion], decay)),
     emotion |-> "update.emotion"]

\* update(emotion, events, rules) on the objects named `emotion`, `events`, `rls`
EmotionEngine_update_call(objs, emotion, events, rls) ==
    LET deltas == objs[rls].event_emotion
        decay == objs[rls].emotion_trait.emotion_decay
        d == Decayed(objs, emotion, decay)
        after == Written(d.objs, d.emotion,
                         ApplyEvents(d.objs[d.emotion], d.objs[events], deltas))
    IN  [objs |-> after, returned |-> after[d.emotion]]

\* apply_emotion_nudges(baseline, current, emotion, rules) on the objects of
\* these names: `updated = dict(current)` is a new dict and both loops assign
\* into it
TraitEngine_apply_emotion_nudges_call(objs, baseline, current, emotion, rls) ==
    LET nudges == objs[rls].emotion_trait_nudges
        copied == NewObject(objs, "apply.updated", objs[current])
        driven == Written(copied, "apply.updated",
                      [t \in DOMAIN copied["apply.updated"] |->
                          DrivenTrait(t, copied[baseline], copied["apply.updated"],
                                      copied[emotion], nudges)])
        pulled == Written(driven, "apply.updated",
                      [t \in DOMAIN driven["apply.updated"] |->
                          ReturnToBaseline(t, driven["apply.updated"][t],
                                           driven[baseline],
                                           nudges.trait_return_to_baseline)])
    IN  [objs |-> pulled, returned |-> pulled["apply.updated"]]

\* mutant of EventExtractor_extract_call: an extractor that empties the
\* event types of its taxonomy once it has matched them
EventExtractor_extract_call_Forgetting(objs, self, user_message, context) ==
    [objs |-> Written(objs, self, [objs[self] EXCEPT !.taxonomy.event_types = <<>>]),
     returned |-> EventExtractor_extract(objs[user_message], objs[context],
                                         objs[self].taxonomy)]

\* extract(user_message, context) on the objects of these names and on the
\* extractor `self`: the context and self.taxonomy are read with .get only,
\* the lists and the dict returned are new
EventExtractor_extract_call(objs, self, user_message, context) ==
    [objs |-> objs,
     returned |-> EventExtractor_extract(objs[user_message], objs[context],
                                         objs[self].taxonomy)]

\* the objects the caller passed, as they are in `objs`
Arguments(objs, names) == [n \in names |-> objs[n]]

\* calls of the three functions in one behaviour
MaxPureCalls == 2

\* the messages and the contexts passed to extract
PureMessages == {<<"hello">>, <<"won">>, <<"moon", "cafe", "loud">>}

Contexts == {EmptyDict,
             [last_entity_focus |-> None],
             [last_entity_focus |-> "Moon Cafe"]}

\* the event lists passed to update
PureEventLists == {<<>>, <<"e1">>, <<"unlisted">>, <<"e2", "e1">>}

\* the caller's objects and the engines as constructed; `result` is the record
\* of the calls made so far, in order
InitPure ==
    /\ counters = ResetCounters(0)
    /\ \E emotion \in DictsOver(EmotionNames, EmotionValues) :
          vectors = [ResetVectors(BaselineOld) EXCEPT !.emotion_vector = emotion]
    /\ persona = ResetPersona
    /\ \E row \in {[joy |-> 300], [joy |-> -700, fear |-> 300]} :
          rules = load_rules(DeltaTable(row), EmotionTraitNudges,
                      [rumination_window_turns |-> 1,
                       stable_baseline_update |-> CHOOSE pol \in Policies : TRUE],
                      Taxonomy)
    /\ belief_log = <<>>
    /\ episodic_log = <<>>
    /\ drift_log = <<>>
    /\ result = <<>>
    /\ last_op = "init"
    /\ calls = NoCalls
    /\ backups = NoBackups
    /\ disk = AllJson
    /\ engines = NewEngines(rules.event_taxonomy)

\* what a call left: the function, the arguments before and after it, and
\* what it returned
Outcome(function, args, call) ==
    [function |-> function,
     args |-> args,
     args_after |-> Arguments(call.objs, DOMAIN args),
     returned |-> call.returned]

\* the objects of a call: the arguments and the engine the method is called on
WithSelf(args, self) == NewObject(args, "self", self)

\* emotion_engine.update(emotion, events, rules) on the caller's objects.  The
\* caller goes on with the objects as the call left them and with the engine
\* as the call left it; with `adopt` it takes the returned vector for its
\* emotion vector (as step does at line 66), without it keeps its own
EmotionCall(events, adopt) ==
    LET args == [emotion |-> vectors.emotion_vector, events |-> events,
                 rules |-> rules]
        call == EmotionEngine_update_call(WithSelf(args, engines.emotion_engine),
                                          "emotion", "events", "rules")
    IN  /\ counters.current_turn < MaxPureCalls
        /\ counters' = [counters EXCEPT !.current_turn = @ + 1]
        /\ vectors' = [vectors EXCEPT !.emotion_vector =
                          IF adopt THEN call.returned ELSE call.objs["emotion"]]
        /\ rules' = call.objs["rules"]
        /\ engines' = [engines EXCEPT !.emotion_engine = call.objs["self"]]
        /\ result' = Append(result, Outcome("EmotionEngine.update", args, call))
        /\ last_op' = "call of EmotionEngine.update"
        /\ UNCHANGED <<persona, belief_log, episodic_log, drift_log, calls,
                       backups, disk>>

\* trait_engine.apply_emotion_nudges(baseline, current, emotion, rules)
TraitCall(adopt) ==
    LET args == [baseline |-> vectors.trait_vector.baseline,
                 current |-> vectors.trait_vector.current,
                 emotion |-> vectors.emotion_vector,
                 rules |-> rules]
        call == TraitEngine_apply_emotion_nudges_call(
                    WithSelf(args, engines.trait_engine),
                    "baseline", "current", "emotion", "rules")
    IN  /\ counters.current_turn < MaxPureCalls
        /\ counters' = [counters EXCEPT !.current_turn = @ + 1]
        /\ vectors' = [vectors EXCEPT
                          !.trait_vector.baseline = call.objs["baseline"],
                          !.trait_vector.current =
                              IF adopt THEN call.returned ELSE call.objs["current"],
                          !.emotion_vector = call.objs["emotion"]]
        /\ rules' = call.objs["rules"]
        /\ engines' = [engines EXCEPT !.trait_engine = call.objs["self"]]
        /\ result' = Append(result,
                            Outcome("TraitEngine.apply_emotion_nudges", args, call))
        /\ last_op' = "call of TraitEngine.apply_emotion_nudges"
        /\ UNCHANGED <<persona, belief_log, episodic_log, drift_log, calls,
                       backups, disk>>

\* event_extractor.extract(user_message, context): the taxonomy is not an
\* argument, the extractor holds it
ExtractCall(user_message, context) ==
    LET args == [user_message |-> user_message, context |-> context]
        call == EventExtractor_extract_call(
                    WithSelf(args, engines.event_extractor),
                    "self", "user_message", "context")
    IN  /\ counters.current_turn < MaxPureCalls
        /\ counters' = [counters EXCEPT !.current_turn = @ + 1]
        /\ engines' = [engines EXCEPT !.event_extractor = call.objs["self"]]
        /\ result' = Append(result, Outcome("EventExtractor.extract", args, call))
        /\ last_op' = "call of EventExtractor.extract"
        /\ UNCHANGED <<vectors, persona, rules, belief_log, episodic_log,
                       drift_log, calls, backups, disk>>

NextPure ==
    \/ \E events \in PureEventLists, adopt \in BOOLEAN : EmotionCall(events, adopt)
    \/ \E adopt \in BOOLEAN : TraitCall(adopt)
    \/ \E user_message \in PureMessages, context \in Contexts :
          ExtractCall(user_message, context)

SpecPure == InitPure /\ [][NextPure]_vars

\* the calls of a behaviour left their arguments as they were
ArgumentsKept == \A i \in DOMAIN result : result[i].args_after = result[i].args

\* two calls of a behaviour of the same function with equal arguments returned
\* equal outputs, whatever was called between them
SameInputsSameOutput ==
    \A i \in DOMAIN result : \A j \in DOMAIN result :
        (/\ result[i].function = result[j].function
         /\ result[i].args = result[j].args)
            => result[i].returned = result[j].returned

\* C16: a call of the Signal Extractor, of the Emotion Updater or of the Trait
\* Updater leaves the objects it was given (context, vectors, event list, rule
\* tables) as they were, and two calls of the same function with the same
\* inputs, the second made on the engine and the objects as the calls before
\* it left them, return the same output
C16_PureCalls == ArgumentsKept /\ SameInputsSameOutput

\* C16 witness: an update called twice with the same vector, event list and
\* rules; it returned each time the same vector, other than the one passed in,
\* decayed and moved by a listed event, and left the one passed in alone
C16_Witness ==
    /\ Len(result) = 2
    /\ result[1].function = "EmotionEngine.update"
    /\ result[2].function = "EmotionEngine.update"
    /\ result[2].args = result[1].args
    /\ \E i \in DOMAIN result[1].args.events :
          result[1].args.events[i] \in DOMAIN result[1].args.rules.event_emotion
    /\ \A k \in DOMAIN result[1].args.emotion :
          result[1].returned[k] # result[1].args.emotion[k]
    /\ result[2].returned = result[1].returned
    /\ result[2].args_after.emotion = result[1].args.emotion

----------------------------------------------------------------------------
(* Turns without events: the reversion of the traits toward the baseline *)

\* turns in one behaviour of reversion
MaxReversionTurns == 3

\* trait values of the vectors file, in [0,1]
UnitValues == {0, 1, 300, 600, 999, 1000}

\* trait_return_to_baseline, in (0,1)
ReturnFactors == {1, 500, 850, 999}

InitReversion ==
    /\ counters = ResetCounters(0)
    /\ \E baseline \in DictsOver(TraitNames, {0, 300, 1000}),
          current \in DictsOver(TraitNames, UnitValues) :
          vectors = [ResetVectors(BaselineOld) EXCEPT !.trait_vector =
                        [baseline |-> baseline, current |-> current]]
    /\ persona = ResetPersona
    /\ \E return_to_base \in ReturnFactors :
          rules = load_rules(EventEmotion,
                      [EmotionTraitNudges EXCEPT
                          !.trait_return_to_baseline = return_to_base],
                      [rumination_window_turns |-> 1,
                       stable_baseline_update |-> CHOOSE pol \in Policies : TRUE],
                      Taxonomy)
    /\ belief_log = <<>>
    /\ episodic_log = <<>>
    /\ drift_log = <<>>
    /\ result = NoResult
    /\ last_op = "init"
    /\ calls = NoCalls
    /\ backups = NoBackups
    /\ disk = AllJson
    /\ engines = NewEngines(rules.event_taxonomy)

\* the emotion and trait updates of a turn whose message has no event: the
\* emotion vector, neutral, stays neutral and the driven delta is zero
ReversionTurn ==
    LET emotion == EmotionEngine_update(vectors.emotion_vector, <<>>, rules)
        returned == TraitEngine_apply_emotion_nudges(
                        vectors.trait_vector.baseline, vectors.trait_vector.current,
                        emotion, rules)
    IN  /\ counters.current_turn < MaxReversionTurns
        /\ counters' = [counters EXCEPT !.current_turn = @ + 1]
        /\ vectors' = [vectors EXCEPT !.emotion_vector = emotion,
                                      !.trait_vector.current = returned]
        /\ result' = [baseline |-> vectors.trait_vector.baseline,
                      current |-> vectors.trait_vector.current,
                      emotion |-> emotion,
                      returned |-> returned]
        /\ last_op' = "turn without events"
        /\ UNCHANGED <<persona, rules, belief_log, episodic_log, drift_log, calls, backups, disk, engines>>

NextReversion == ReversionTurn

SpecReversion == InitReversion /\ [][NextReversion]_vars

\* C17: over turns with a neutral emotion vector and no events, for every
\* trait of both current and baseline the distance |current - baseline| after
\* the turn is at most what it was before it, and current stays on its side of
\* the baseline
C17_ReversionMonotone ==
    last_op = "turn without events" =>
        /\ \A k \in DOMAIN result.emotion : result.emotion[k] = Neutral
        /\ \A t \in (DOMAIN result.current) \cap (DOMAIN result.baseline) :
              /\ Abs(result.returned[t] - result.baseline[t])
                    <= Abs(result.current[t] - result.baseline[t])
              /\ result.current[t] >= result.baseline[t]
                    => result.returned[t] >= result.baseline[t]
              /\ result.current[t] <= result.baseline[t]
                    => result.returned[t] <= result.baseline[t]

\* C17 witness: a third turn in a row that took a trait closer to its
\* baseline from above without reaching it
C17_Witness ==
    /\ last_op = "turn without events"
    /\ counters.current_turn = 3
    /\ \E t \in (DOMAIN result.current) \cap (DOMAIN result.baseline) :
          /\ result.returned[t] < result.current[t]
          /\ result.returned[t] > result.baseline[t]

----------------------------------------------------------------------------
(* The observations a consolidation reads, over the agent's steps *)

\* what the consolidation of the last step read from the log: run appends
\* nothing to belief_observations.jsonl, so the log is as run found it
Consumed ==
    RuminationEngine_run(DefaultSession, persona.stable.stable_beliefs.places,
                         vectors.trait_vector, rules, belief_log,
                         result.turn).belief_obs

\* the logged observations of the turns first..last, in log order
LoggedIn(first, last) ==
    SelectSeq(belief_log, LAMBDA obj : first <= obj.turn /\ obj.turn <= last)

\* C18: when the consolidation fires at turn T it consumes exactly the logged
\* observations whose turn lies in [T - rumination_window_size + 1, T], in log
\* order
C18_WindowOfWindowSize ==
    Fired =>
        Consumed = LoggedIn(result.turn - counters.rumination_window_size + 1,
                            result.turn)

----------------------------------------------------------------------------
(* The Signal Extractor alone: extract on any short message and context, and  *)
(* the logging of what it observed                                            *)

\* longest message, in words
MaxWords == 3

ShortMessages == UNION {[1..n -> Words] : n \in 0..MaxWords}

\* the contexts extract is called with: without the key, with no focus, with
\* an empty one, with a place
ExtractContexts == {EmptyDict,
                    [last_entity_focus |-> None],
                    [last_entity_focus |-> ""],
                    [last_entity_focus |-> "Sun Cafe"]}

\* counters.json: current_turn before the step
TurnsBefore == {0, 6}

\* dynamic_traits.json: the last_entity_focus persisted before the step
FocusBefore == {None, "Sun Cafe"}

InitExtract ==
    /\ \E turn \in TurnsBefore :
          counters = [ResetCounters(1) EXCEPT !.current_turn = turn,
                                              !.last_rumination_turn = turn]
    /\ vectors = ResetVectors(BaselineOld)
    /\ \E focus \in FocusBefore :
          persona = [ResetPersona EXCEPT !.dynamic.last_entity_focus = focus]
    /\ rules = load_rules(EventEmotion, EmotionTraitNudges,
                    [rumination_window_turns |-> 1,
                     stable_baseline_update |-> CHOOSE pol \in Policies : TRUE],
                    Taxonomy)
    /\ belief_log = <<>>
    /\ episodic_log = <<>>
    /\ drift_log = <<>>
    /\ result = NoResult
    /\ last_op = "init"
    /\ calls = NoCalls
    /\ backups = NoBackups
    /\ disk = AllJson
    /\ engines = NewEngines(rules.event_taxonomy)

\* a call of EventExtractor.extract(user_message, context) on its own: it
\* returns its dict and writes no file
ExtractCalled(user_message, context) ==
    /\ last_op = "init"
    /\ result' = [user_message |-> user_message, context |-> context,
                  returned |-> EventExtractor_extract(user_message, context,
                                                      rules.event_taxonomy)]
    /\ last_op' = "EventExtractor.extract"
    /\ UNCHANGED <<counters, vectors, persona, rules, belief_log, episodic_log,
                   drift_log, calls, backups, disk, engines>>

\* extract on its own on any short message and context, and one step on any
\* short message
NextExtract ==
    \/ /\ last_op = "init"
       /\ \E user_message \in ShortMessages, context \in ExtractContexts :
             ExtractCalled(user_message, context)
    \/ /\ last_op = "init"
       /\ \E user_message \in ShortMessages :
             LoadsStable("first", user_message, DefaultSession, NoContext)
    \/ StepGoesOn("first")

SpecExtract == InitExtract /\ [][NextExtract]_vars

\* k in text, for a cue or marker k
InText(k, text) == \E i \in DOMAIN text : k \in Substrings(text[i])

Extracted == last_op = "EventExtractor.extract"

\* the positions of an explicit mention: "cafe" after another token
Mentions(text) == {i \in DOMAIN text : i > 1 /\ text[i] = "cafe"}

\* C19: extract emits an observation only when a focus entity was resolved and
\* at most one per call: the noisy value 0.8 if the text has a noisy cue, else
\* the quiet value 0.2 if it has a quiet cue, else none; its entity is the
\* focus entity, and the record logged for it carries the current turn
C19_OneObservation ==
    /\ Extracted =>
        LET obs == result.returned.belief_observations
            focus == result.returned.focused_entity
            noisy == \E k \in noisy_cues : InText(k, result.user_message)
            quiet == \E k \in quiet_cues : InText(k, result.user_message)
        IN  /\ Len(obs) <= 1
            /\ obs # <<>> => focus \notin {None, ""}
            /\ focus \notin {None, ""} =>
                  obs = IF noisy THEN <<[entity |-> focus, dimension |-> "noise_level",
                                        value |-> 800]>>
                        ELSE IF quiet
                             THEN <<[entity |-> focus, dimension |-> "noise_level",
                                     value |-> 200]>>
                        ELSE <<>>
    /\ last_op = "append_belief_observation" =>
        LET held == calls["first"].held[1]
            obs == held.extracted.belief_observations
        IN  /\ Len(obs) <= 1
            /\ held.turn = counters.current_turn + 1
            /\ belief_log = [i \in DOMAIN obs |->
                                [turn |-> held.turn,
                                 entity |-> obs[i].entity,
                                 dimension |-> obs[i].dimension,
                                 value |-> obs[i].value]]
    /\ last_op = "step" =>
        /\ result.turn = counters.current_turn
        /\ Len(belief_log) = Len(result.debug.belief_observations)
        /\ \A i \in DOMAIN belief_log : belief_log[i].turn = counters.current_turn

\* C19 witness: a step on a message with a quiet cue before a noisy one, the
\* focus being the persisted one: observed as noisy once and logged at turn 7
C19_Witness ==
    /\ last_op = "append_belief_observation"
    /\ calls["first"].user_message = <<"it", "quiet", "loud">>
    /\ persona.dynamic.last_entity_focus = "Sun Cafe"
    /\ Len(belief_log) = 1
    /\ belief_log[1].value = 800
    /\ belief_log[1].entity = "Sun Cafe"
    /\ belief_log[1].turn = 7

\* C20: an explicit "<token> cafe" mention decides the focus entity whatever
\* the context; without one, a deictic marker in the text makes the focus the
\* context's last_entity_focus; with neither the focus is absent, the entities
\* list is empty and there is no observation
C20_FocusPriority ==
    Extracted =>
        LET text == result.user_message
            focus == result.returned.focused_entity
            deictic == \E k \in DeicticMarkers : InText(k, text)
        IN  /\ Mentions(text) # {} =>
                  \E i \in Mentions(text) : focus = CafeEntity(text[i - 1])
            /\ Mentions(text) = {} /\ deictic =>
                  focus = Get(result.context, "last_entity_focus", None)
            /\ Mentions(text) = {} /\ ~deictic =>
                  /\ focus = None
                  /\ result.returned.entities = <<>>
                  /\ result.returned.belief_observations = <<>>

\* C20 witness: a message with an explicit mention and a deictic marker, and a
\* context that names another place: the mention decided
C20_Witness ==
    /\ Extracted
    /\ result.user_message = <<"moon", "cafe", "there">>
    /\ result.context = [last_entity_focus |-> "Sun Cafe"]
    /\ result.returned.focused_entity = "Moon Cafe"
    /\ result.returned.entities = <<"Moon Cafe">>

----------------------------------------------------------------------------
(* The Trait Updater under any emotion, from a current near its baseline *)

\* per_turn_trait_cap
Caps == {30, 50, 200}

\* trait_return_to_baseline, in (0,1)
RunawayFactors == {500, 850, 900}

\* current values of the vectors file: those of UnitValues and, for a cap of
\* 0.03 and a factor of 0.9, the values at 0.27 from the baselines 0 and 0.3
RunawayCurrents == UnitValues \cup {270, 570}

\* |current - baseline| <= cap * r / (1 - r), for the traits of both vectors
NearBaseline(baseline, current, nudges) ==
    \A t \in (DOMAIN current) \cap (DOMAIN baseline) :
        Abs(current[t] - baseline[t]) * (One - nudges.trait_return_to_baseline)
            <= nudges.per_turn_trait_cap * nudges.trait_return_to_baseline

InitRunaway ==
    /\ counters = ResetCounters(0)
    /\ persona = ResetPersona
    /\ \E cap \in Caps, return_to_base \in RunawayFactors, w \in JoyWeights :
          rules = load_rules(EventEmotion,
                      [EmotionTraitNudges EXCEPT
                          !.coefficients_centered =
                              [t \in {"openness"} |-> [emo \in {"joy"} |-> w]],
                          !.per_turn_trait_cap = cap,
                          !.trait_return_to_baseline = return_to_base],
                      [rumination_window_turns |-> 1,
                       stable_baseline_update |-> CHOOSE pol \in Policies : TRUE],
                      Taxonomy)
    /\ \E baseline \in [TraitNames -> {0, 300, 1000}],
          current \in DictsOver(TraitNames, RunawayCurrents) :
          /\ NearBaseline(baseline, current, rules.emotion_trait_nudges)
          /\ vectors = [ResetVectors(BaselineOld) EXCEPT !.trait_vector =
                            [baseline |-> baseline, current |-> current]]
    /\ belief_log = <<>>
    /\ episodic_log = <<>>
    /\ drift_log = <<>>
    /\ result = NoResult
    /\ last_op = "init"
    /\ calls = NoCalls
    /\ backups = NoBackups
    /\ disk = AllJson
    /\ engines = NewEngines(rules.event_taxonomy)

SpecRunaway == InitRunaway /\ [][NextTrait]_vars

\* `baseline[trait] + (updated[trait] - baseline[trait]) * return_to_base` in
\* the doubles of the code, where it differs from the decimal value: the
\* <<cap, factor, baseline, current>> of a trait at the bound that the first
\* loop drove by the whole cap away from the baseline.  0.27 + 0.03 is the
\* double 0.30000000000000004 and 0.9 times it the double 0.2700000000000001,
\* above 0.03 * 0.9 / (1 - 0.9) whether the bound is taken of the decimal
\* values or of their doubles; 0.3 + 0.27 * 0.9 likewise is 0.5700000000000001
RoundsPastBound == {<<30, 900, 0, 270>>, <<30, 900, 300, 570>>}

\* the call just made was the first on the values of the files, and its
\* double for trait t lies beyond the bound: t was at the bound, was driven by
\* the whole cap and came back to the same thousandth
RoundedPast(t) ==
    /\ last_op = "TraitEngine.apply_emotion_nudges"
    /\ counters.current_turn = 1
    /\ t \in (DOMAIN result.baseline) \cap (DOMAIN result.current)
    /\ <<rules.emotion_trait_nudges.per_turn_trait_cap,
         rules.emotion_trait_nudges.trait_return_to_baseline,
         result.baseline[t], result.current[t]>> \in RoundsPastBound
    /\ result.returned[t] = result.current[t]
    /\ result.returned[t] # result.baseline[t]

\* C21 as claimed: from a current with |current - baseline| <= cap*r/(1-r) for
\* every trait of both vectors and a baseline in [0,1], the same bound holds
\* after every turn, whatever the emotion vectors of the turns are: in the
\* thousandths of the model and in the doubles the code returned
C21_NoRunaway ==
    /\ NearBaseline(vectors.trait_vector.baseline, vectors.trait_vector.current,
                    rules.emotion_trait_nudges)
    /\ \A t \in TraitNames : ~RoundedPast(t)

\* C21 amended: from such a current the bound holds after every turn up to the
\* rounding of the doubles: to the thousandth |current - baseline| stays
\* within cap*r/(1-r), whatever the emotion vectors of the turns are
C21_NoRunawayRounded ==
    \A t \in (DOMAIN vectors.trait_vector.current)
                \cap (DOMAIN vectors.trait_vector.baseline) :
        Abs(vectors.trait_vector.current[t] - vectors.trait_vector.baseline[t])
                * (One - rules.emotion_trait_nudges.trait_return_to_baseline)
            <= rules.emotion_trait_nudges.per_turn_trait_cap
                * rules.emotion_trait_nudges.trait_return_to_baseline

\* C21 witness: two turns with the same extreme joy, each driven by the whole
\* cap, after which the trait is further than one cap from its baseline
C21_Witness ==
    /\ last_op = "TraitEngine.apply_emotion_nudges"
    /\ counters.current_turn = 2
    /\ result.emotion.joy = 1500
    /\ "openness" \in DOMAIN result.current
    /\ Abs(result.current["openness"] - result.baseline["openness"]) > 0
    /\ Abs(vectors.trait_vector.current["openness"]
           - vectors.trait_vector.baseline["openness"])
          > rules.emotion_trait_nudges.per_turn_trait_cap

----------------------------------------------------------------------------
(* The driven delta of one call of the Trait Updater *)

\* what the second loop makes of a trait that the first loop moved by delta
\* and clamped
AfterDelta(t, delta) ==
    ReturnToBaseline(t, clamp(result.current[t] + delta, 0, One), result.baseline,
                     rules.emotion_trait_nudges.trait_return_to_baseline)

\* the traits the first loop moves: a coefficient row, and in baseline and current
Driven(t) ==
    /\ t \in DOMAIN rules.emotion_trait_nudges.coefficients_centered
    /\ t \in DOMAIN result.baseline

\* C22: in one call of apply_emotion_nudges the delta added to a trait with a
\* coefficient row lies in [-per_turn_trait_cap, per_turn_trait_cap] whatever
\* the coefficients and the emotion are, and a trait without a row or absent
\* from the baseline gets no delta
C22_DeltaCapped ==
    last_op = "TraitEngine.apply_emotion_nudges" =>
        \A t \in DOMAIN result.current :
            IF Driven(t)
            THEN \E delta \in (-rules.emotion_trait_nudges.per_turn_trait_cap)
                                ..rules.emotion_trait_nudges.per_turn_trait_cap :
                    result.returned[t] = AfterDelta(t, delta)
            ELSE result.returned[t] =
                    ReturnToBaseline(t, result.current[t], result.baseline,
                        rules.emotion_trait_nudges.trait_return_to_baseline)

\* C22 witness: joy 1.5 under a weight of 2 is a weighted sum of 2.0; openness
\* went from 0.5 to 0.55, the whole cap and no more, and then back toward 0.6,
\* beside a warmth without a coefficient row
C22_Witness ==
    /\ last_op = "TraitEngine.apply_emotion_nudges"
    /\ result.emotion.joy = 1500
    /\ rules.emotion_trait_nudges.coefficients_centered["openness"]["joy"] = 2000
    /\ DOMAIN result.current = {"openness", "warmth"}
    /\ DOMAIN result.baseline = {"openness", "warmth"}
    /\ result.current["openness"] = 500
    /\ result.baseline["openness"] = 600
    /\ result.returned["openness"] = 558

----------------------------------------------------------------------------
(* The Emotion Updater in turns without a listed event *)

\* emotion_decay, in (0,1)
DecayFactors == {1, 500, 750, 999}

\* incoming emotion values, in [0,1]
UnitEmotions == {0, 1, 500, 800, 1000}

\* event lists with no tag of the delta table
UnlistedEventLists == {<<>>, <<"unlisted">>, <<"unlisted", "unheard">>}

InitDecay ==
    /\ counters = ResetCounters(0)
    /\ \E emotion \in DictsOver(EmotionNames, UnitEmotions) :
          vectors = [ResetVectors(BaselineOld) EXCEPT !.emotion_vector = emotion]
    /\ persona = ResetPersona
    /\ \E decay \in DecayFactors :
          rules = load_rules(DeltaTable([joy |-> 300]),
                      [EmotionTraitNudges EXCEPT !.emotion_decay = decay],
                      [rumination_window_turns |-> 1,
                       stable_baseline_update |-> CHOOSE pol \in Policies : TRUE],
                      Taxonomy)
    /\ belief_log = <<>>
    /\ episodic_log = <<>>
    /\ drift_log = <<>>
    /\ result = NoResult
    /\ last_op = "init"
    /\ calls = NoCalls
    /\ backups = NoBackups
    /\ disk = AllJson
    /\ engines = NewEngines(rules.event_taxonomy)

NextDecay == \E events \in UnlistedEventLists : EmotionTurn(events)

SpecDecay == InitDecay /\ [][NextDecay]_vars

\* C23: in a turn whose events are none or are all absent from the delta
\* table, update returns the dimensions it got, each at
\* 0.5 + (old - 0.5) * d: no further from 0.5 than it was and on the same side
\* of it, and a vector at 0.5 everywhere is returned as it is
C23_DecayOnly ==
    last_op = "EmotionEngine.update" =>
        /\ DOMAIN result.returned = DOMAIN result.emotion
        /\ \A k \in DOMAIN result.emotion :
              /\ result.returned[k] =
                    Neutral + MulFrac(result.emotion[k] - Neutral,
                                      rules.emotion_trait.emotion_decay)
              /\ Abs(result.returned[k] - Neutral) <= Abs(result.emotion[k] - Neutral)
              /\ result.emotion[k] >= Neutral => result.returned[k] >= Neutral
              /\ result.emotion[k] <= Neutral => result.returned[k] <= Neutral
        /\ (\A k \in DOMAIN result.emotion : result.emotion[k] = Neutral)
              => result.returned = result.emotion

\* C23 witness: a second turn in a row with only an unlisted event, in which
\* a joy above 0.5 came closer to 0.5 without reaching it, next to a fear
\* that was at 0.5 and stayed
C23_Witness ==
    /\ last_op = "EmotionEngine.update"
    /\ counters.current_turn = 2
    /\ result.events = <<"unlisted">>
    /\ DOMAIN result.emotion = {"joy", "fear"}
    /\ result.returned["joy"] < result.emotion["joy"]
    /\ result.returned["joy"] > Neutral
    /\ result.emotion["fear"] = Neutral
    /\ result.returned["fear"] = Neutral

----------------------------------------------------------------------------
(* The stored beliefs across turns and consolidation runs *)

Places == persona.stable.stable_beliefs.places

\* C24: no turn and no consolidation run deletes a belief: every key stored
\* before is stored after, with the entity and the dimension it had
C24_BeliefsKept ==
    [][\A k \in DOMAIN Places :
          /\ k \in DOMAIN Places'
          /\ Places'[k].entity = Places[k].entity
          /\ Places'[k].dimension = Places[k].dimension]_vars

\* C24 witness: a third turn, whose run found two beliefs, one from the start
\* and one created by the run before, and no observation of the first in its
\* window, and kept both
C24_Witness ==
    /\ RanConsolidation
    /\ counters.current_turn = 3
    /\ DOMAIN result.before = {BeliefKey("Moon Cafe", "noise_level"),
                               BeliefKey("Sun Cafe", "noise_level")}
    /\ DOMAIN PlacesNow = DOMAIN result.before
    /\ Matching("Moon Cafe", "noise_level") = <<>>
    /\ PlacesNow[BeliefKey("Sun Cafe", "noise_level")].last_updated_turn = 2

\* C25: a consolidation run leaves a belief that existed before it as it was,
\* mean, confidence, last_updated_turn and evidence, when its window has no
\* observation of the belief's entity and dimension
C25_UnobservedUnchanged ==
    RanConsolidation =>
        \A k \in DOMAIN result.before :
            Matching(result.before[k].entity, result.before[k].dimension) = <<>>
                => /\ k \in DOMAIN PlacesNow
                   /\ PlacesNow[k] = result.before[k]

\* C25 witness: a run whose window holds observations of another place only,
\* enough to create that place's belief, and which left the stored belief of
\* confidence 0.99 as it was
C25_Witness ==
    /\ RanConsolidation
    /\ \E k \in DOMAIN result.before :
          /\ result.before[k].confidence = 990
          /\ Matching(result.before[k].entity, result.before[k].dimension) = <<>>
          /\ PlacesNow[k] = result.before[k]
    /\ Created(BeliefKey("Sun Cafe", "noise_level"))
    /\ belief_log # <<>>
    /\ \A i \in DOMAIN belief_log : belief_log[i].entity = "Sun Cafe"

----------------------------------------------------------------------------
(* The focus entity across steps, with a context passed by the caller *)

\* steps in one behaviour with caller contexts
MaxFocusTurns == 2

\* the contexts a caller passes to step
CallerContexts == {NoContext,
                   [last_entity_focus |-> None],
                   [last_entity_focus |-> "Sun Cafe"]}

InitFocus ==
    /\ Init
    /\ counters.rumination_window_size = 2
    /\ rules.update_policy.rumination_window_turns = 2
    /\ rules.update_policy.stable_baseline_update.min_contradict_count = 1
    /\ vectors = ResetVectors(BaselineOld)

NextFocus ==
    \/ /\ Ended("first")
       /\ counters.current_turn < MaxFocusTurns
       /\ \E user_message \in Messages, context \in CallerContexts :
             LoadsStable("first", user_message, DefaultSession, context)
    \/ StepGoesOn("first")

SpecFocus == InitFocus /\ [][NextFocus]_vars

\* the entity of the last explicit mention of a text that has one
LastMentioned(text) ==
    CafeEntity(text[(CHOOSE i \in Mentions(text) :
                        \A j \in Mentions(text) : j <= i) - 1])

\* the records the operation appended to the belief-observation log
AppendedObservations ==
    {belief_log'[i] : i \in (Len(belief_log) + 1)..Len(belief_log')}

\* C26: after a step whose message names an entity the persisted
\* last_entity_focus is that entity; a step that resolves no entity leaves it
\* as it was; and in a step whose message has no mention but a deictic marker
\* the focus, and the entity of any observation logged in the turn, is the
\* last_entity_focus persisted before the step, whatever the caller's context
\* holds
C26_FocusCarries ==
    [][LET text == calls'["first"].user_message
           before == persona.dynamic.last_entity_focus
           after == persona'.dynamic.last_entity_focus
           deictic == \E k \in DeicticMarkers : InText(k, text)
       IN  /\ last_op' = "load counters" /\ Mentions(text) = {} /\ deictic =>
                /\ Working.extracted.focused_entity = before
                /\ Working.context.last_entity_focus = before
           /\ last_op' = "append_belief_observation" =>
                /\ AppendedObservations # {}
                /\ Mentions(text) = {} => deictic
                /\ Mentions(text) = {} =>
                      \A obs \in AppendedObservations : obs.entity = before
           /\ last_op' = "save dynamic" =>
                /\ Mentions(text) # {} => after = LastMentioned(text)
                /\ Mentions(text) = {} => after = before
           /\ last_op' # "save dynamic" => after = before]_vars

\* C26 witness: a second step, "it quiet", called with a context that names
\* Sun Cafe after a first step that named Moon Cafe: the context the step
\* holds names Moon Cafe, and the observation it has logged at turn 2 is of
\* Moon Cafe, the persisted focus and the focus it will save
C26_Witness ==
    /\ last_op = "append_belief_observation"
    /\ calls["first"].user_message = <<"it", "quiet">>
    /\ calls["first"].passed = [last_entity_focus |-> "Sun Cafe"]
    /\ calls["first"].held[1].context = [last_entity_focus |-> "Moon Cafe"]
    /\ persona.dynamic.last_entity_focus = "Moon Cafe"
    /\ calls["first"].held[1].persona.dynamic.last_entity_focus = "Moon Cafe"
    /\ belief_log # <<>>
    /\ belief_log[Len(belief_log)].turn = 2
    /\ belief_log[Len(belief_log)].entity = "Moon Cafe"
    /\ belief_log[Len(belief_log)].value = 200

----------------------------------------------------------------------------
(* reset_personality.py on the files it finds *)

\* state/vectors.json as found: the trait_vector.baseline someone wrote
StoredBaselines == {"valid", "out of range", "numeric text", "mixed",
                    "not numeric", "empty", "no baseline", "no trait_vector"}

BaselineAsStored(file) ==
    CASE file = "valid" ->
            [t \in TraitNames |-> IF t = "openness" THEN Number(600) ELSE Number(300)]
      [] file = "out of range" ->
            [t \in TraitNames |-> IF t = "openness" THEN Number(1300) ELSE Number(-200)]
      [] file = "numeric text" ->
            [t \in TraitNames |-> IF t = "openness" THEN String("0.6") ELSE String("")]
      [] file = "mixed" ->
            [t \in TraitNames |-> IF t = "openness" THEN Number(600) ELSE String("high")]
      [] file = "not numeric" ->
            [t \in TraitNames |-> IF t = "openness" THEN String("high") ELSE Null]
      [] file = "empty" -> EmptyDict

CurrentAsStored == [t \in TraitNames |-> Number(500)]

VectorsAsStored(file) ==
    CASE file = "no trait_vector" ->
            [turn |-> 3, emotion_vector |-> [e \in EMOTIONS_8 |-> Neutral]]
      [] file = "no baseline" ->
            [turn |-> 3,
             trait_vector |-> [current |-> CurrentAsStored],
             emotion_vector |-> [e \in EMOTIONS_8 |-> Neutral]]
      [] OTHER ->
            [turn |-> 3,
             trait_vector |-> [baseline |-> BaselineAsStored(file),
                               current |-> CurrentAsStored],
             emotion_vector |-> [e \in EMOTIONS_8 |-> Neutral]]

\* state/counters.json as found: after three turns of a window of two, or of
\* a window of one
CountersAsStored ==
    {[current_turn |-> 3, last_rumination_turn |-> 2,
      rumination_window_size |-> 2, turns_since_last_rumination |-> 1],
     [current_turn |-> 3, last_rumination_turn |-> 3,
      rumination_window_size |-> 1, turns_since_last_rumination |-> 0]}

InitReset ==
    /\ counters \in CountersAsStored
    /\ \E file \in StoredBaselines : vectors = VectorsAsStored(file)
    /\ \E places \in PriorPlaces, focus \in {None, "Moon Cafe"} :
          persona = [stable |-> [stable_beliefs |-> [places |-> places]],
                     dynamic |-> [recent_discoveries |-> <<>>,
                                  last_entity_focus |-> focus]]
    /\ rules = load_rules(EventEmotion, EmotionTraitNudges,
                    [rumination_window_turns |-> 1,
                     stable_baseline_update |-> CHOOSE pol \in Policies : TRUE],
                    Taxonomy)
    /\ belief_log = <<>>
    /\ \E log \in {<<>>, append_episode(<<>>, DefaultSession, 1)} :
          episodic_log = log
    /\ drift_log = <<>>
    /\ result = NoResult
    /\ last_op = "init"
    /\ calls = NoCalls
    /\ backups = NoBackups
    /\ disk = AllJson
    /\ engines = NewEngines(rules.event_taxonomy)

\* main() of reset_personality.py with its two flags: the baseline is read and
\* checked first; only a baseline with an entry goes on to the backups and the
\* four writes, and to the deletion of the .jsonl files under --wipe-memory
reset_personality_main(wipe_memory, clear_beliefs) ==
    LET rum_window == counters.rumination_window_size
        trait_vec == Get(vectors, "trait_vector", EmptyDict)
        baseline_old == Get(trait_vec, "baseline", EmptyDict)
        entries == NumericEntries(baseline_old)
    IN  IF DOMAIN entries = {}
        THEN /\ last_op' = "reset raised"
             /\ UNCHANGED <<counters, vectors, persona, rules, belief_log,
                            episodic_log, drift_log, result, calls, backups, disk, engines>>
        ELSE /\ backups' = [f \in BackupFiles |->
                              CASE f = "stable_traits.json" -> <<persona.stable>>
                                [] f = "dynamic_traits.json" -> <<persona.dynamic>>
                                [] f = "counters.json" -> <<counters>>
                                [] f = "vectors.json" -> <<vectors>>]
             /\ counters' = ResetCounters(rum_window)
             /\ vectors' = write_json_vectors(ResetVectors(entries))
             /\ persona' = [stable |-> IF clear_beliefs THEN ResetPersona.stable
                                       ELSE persona.stable,
                            dynamic |-> ResetPersona.dynamic]
             /\ belief_log' = IF wipe_memory THEN <<>> ELSE belief_log
             /\ episodic_log' = IF wipe_memory THEN <<>> ELSE episodic_log
             /\ drift_log' = IF wipe_memory THEN <<>> ELSE drift_log
             /\ last_op' = "reset"
             /\ UNCHANGED <<rules, result, calls, disk, engines>>

NextReset ==
    \E wipe_memory \in BOOLEAN, clear_beliefs \in BOOLEAN :
        reset_personality_main(wipe_memory, clear_beliefs)

SpecReset == InitReset /\ [][NextReset]_vars

\* the stored baseline is missing, empty, or none of its values is a number
\* (a string that spells a number is read as that number)
NoNumericBaseline ==
    \/ "trait_vector" \notin DOMAIN vectors
    \/ "baseline" \notin DOMAIN vectors.trait_vector
    \/ \A k \in DOMAIN vectors.trait_vector.baseline :
          LET v == vectors.trait_vector.baseline[k]
          IN  /\ v.type # "number"
              /\ ~(v.type = "string" /\ v.text \in {"0.6", "1.3"})

\* C27: a run of the reset utility on a stored baseline that is missing, empty
\* or without a numeric value ends in an error, and leaves the counters, the
\* vectors, the dynamic and stable persona and the .bak files as they were;
\* on any other baseline it completes
C27_ResetHaltsFirst ==
    [][/\ NoNumericBaseline =>
            /\ last_op' = "reset raised"
            /\ counters' = counters
            /\ vectors' = vectors
            /\ persona' = persona
            /\ backups' = backups
       /\ ~NoNumericBaseline => last_op' = "reset"]_vars

\* C27 witness: the reset has been run on a vectors.json whose baseline holds
\* "high" and null, it raised, and there is no .bak file
C27_Witness ==
    /\ last_op = "reset raised"
    /\ "trait_vector" \in DOMAIN vectors
    /\ "baseline" \in DOMAIN vectors.trait_vector
    /\ DOMAIN vectors.trait_vector.baseline = TraitNames
    /\ vectors.trait_vector.baseline["openness"].text = "high"
    /\ counters.current_turn = 3
    /\ backups = NoBackups
    /\ disk = AllJson
    /\ engines = NewEngines(rules.event_taxonomy)

----------------------------------------------------------------------------
(* The counters file after completed steps *)

\* C28: in every counters file reached from reset counters by completed steps,
\* turns_since_last_rumination is current_turn - last_rumination_turn, it is at
\* least 0 and, for a window size of 1 or more, below rumination_window_size,
\* and last_rumination_turn is at most current_turn
C28_CounterInvariant ==
    /\ counters.turns_since_last_rumination
          = counters.current_turn - counters.last_rumination_turn
    /\ counters.last_rumination_turn <= counters.current_turn
    /\ 0 <= counters.turns_since_last_rumination
    /\ counters.rumination_window_size >= 1
          => counters.turns_since_last_rumination < counters.rumination_window_size

\* C28 witness: three completed steps with a window of two: the consolidation
\* ran at turn 2 and one turn has passed since
C28_Witness ==
    /\ last_op = "step"
    /\ counters.rumination_window_size = 2
    /\ counters.current_turn = 3
    /\ counters.last_rumination_turn = 2
    /\ counters.turns_since_last_rumination = 1

----------------------------------------------------------------------------
(* The windows of successive consolidation runs, with one window setting *)

\* rumination_window_size in counters.json and rumination_window_turns in
\* update_policy.json, set to the same value
EqualWindows == {0, 1, 2}

\* the user messages tried: two places observed, and no observation
WindowMessages == {
    <<"hello">>,
    <<"moon", "cafe", "loud">>,
    <<"sun", "cafe", "quiet">> }

InitWindows ==
    /\ \E w \in EqualWindows :
          /\ counters = ResetCounters(w)
          /\ rules = load_rules(EventEmotion, EmotionTraitNudges,
                          [rumination_window_turns |-> w,
                           stable_baseline_update |-> CHOOSE pol \in Policies : TRUE],
                          Taxonomy)
    /\ vectors = ResetVectors(BaselineOld)
    /\ persona = ResetPersona
    /\ belief_log = <<>>
    /\ episodic_log = <<>>
    /\ drift_log = <<>>
    /\ result = NoResult
    /\ last_op = "init"
    /\ calls = NoCalls
    /\ backups = NoBackups
    /\ disk = AllJson
    /\ engines = NewEngines(rules.event_taxonomy)

NextWindows ==
    \/ /\ Ended("first")
       /\ counters.current_turn < MaxTurns
       /\ \E user_message \in WindowMessages :
             LoadsStable("first", user_message, DefaultSession, NoContext)
    \/ StepGoesOn("first")

SpecWindows == InitWindows /\ [][NextWindows]_vars

\* what the consolidation run of turn T read: run appends nothing to the log,
\* and every later record has a later turn
ReadBy(T) ==
    RuminationEngine_run(DefaultSession, persona.stable.stable_beliefs.places,
                         vectors.trait_vector, rules, belief_log, T).belief_obs

\* the runs that read the observation logged as record i
Readers(i) ==
    {T \in FiringTurns : \E j \in DOMAIN ReadBy(T) : ReadBy(T)[j] = belief_log[i]}

\* the runs at or after the turn of record i
RunsFrom(i) == {T \in FiringTurns : T >= belief_log[i].turn}

\* every logged observation is read by the first run at or after its turn, once
\* that run has fired, and by no other run
ReadExactlyOnce ==
    \A i \in DOMAIN belief_log :
        Readers(i) = {T \in RunsFrom(i) : \A U \in RunsFrom(i) : T <= U}

\* C29 as stated: with the two window settings equal, every logged observation
\* is read by exactly one consolidation run, the first at or after its turn
C29_WindowsPartition ==
    counters.rumination_window_size = rules.update_policy.rumination_window_turns
        => ReadExactlyOnce

\* C29: with the two window settings equal and at least 1, every logged
\* observation is read by exactly one consolidation run, the first at or after
\* its turn, never by two and never by none once that run has fired
C29_WindowsPartitionFromOne ==
    /\ counters.rumination_window_size = rules.update_policy.rumination_window_turns
    /\ counters.rumination_window_size >= 1
    => ReadExactlyOnce

\* C29 witness: four steps with both settings at 2, each with an observation:
\* the runs of turns 2 and 4 have fired and each observation has one reader
C29_Witness ==
    /\ counters.rumination_window_size = 2
    /\ rules.update_policy.rumination_window_turns = 2
    /\ FiringTurns = {2, 4}
    /\ Len(belief_log) = 4
    /\ Readers(1) = {2}
    /\ Readers(2) = {2}
    /\ Readers(3) = {4}
    /\ Readers(4) = {4}

----------------------------------------------------------------------------
(* Steps of several sessions: the paths a session_id is turned into *)

\* steps in one behaviour, over all sessions
MaxSessionTurns == 2

SessionIds == {"default", "alice", "bob"}

\* the user message tried: an observation of a named place
SessionMessages == {<<"moon", "cafe", "loud">>}

InitSessions ==
    /\ Init
    /\ counters.rumination_window_size = 2
    /\ rules.update_policy.rumination_window_turns = 2
    /\ rules.update_policy.stable_baseline_update.min_contradict_count = 1
    /\ vectors = ResetVectors(BaselineOld)

\* callers of any session start steps whenever they like, and nothing keeps a
\* file operation of one step from coming between two of another
NextSessions ==
    \/ /\ StepsBegun < MaxSessionTurns
       /\ \E id \in CallIds :
             /\ calls[id].pc # "raised"
             /\ \E user_message \in SessionMessages, session_id \in SessionIds :
                   LoadsStable(id, user_message, session_id, NoContext)
    \/ \E id \in CallIds : StepGoesOn(id)

SpecSessions == InitSessions /\ [][NextSessions]_vars

\* the window a consolidation fired at a turn reads from a log for a session
\* (engines.py 89-94)
WindowRead(log, session_id, turn) ==
    read_beliefs_window(log, session_id,
                        turn - rules.update_policy.rumination_window_turns + 1, turn)

\* C30: a step with any session_id loads the one counters and vectors file,
\* counts its turn on the current_turn it loaded whatever session saved it,
\* appends its episode, its observations and its reply to the one episodic
\* and the one belief-observation log, reads in a consolidation it fires the
\* observations of the window whatever session logged them, and saves the
\* counters and vectors to the one file every session loads: a save writes
\* that file and no other, and where its text lands whole the file holds what
\* the step held
C30_SessionsShareState ==
    [][\A id \in CallIds :
          calls'[id] # calls[id] =>
            LET pc == calls[id].pc
                held == calls[id].held[1]
                after == calls'[id].held[1]
            IN  /\ pc = "load vectors" /\ Readable("vectors.json") =>
                      /\ calls'[id].pc = "load counters"
                      /\ after.vectors = vectors
                /\ pc = "load counters" /\ Readable("counters.json") =>
                      /\ calls'[id].pc = "append episode"
                      /\ after.turn = counters.current_turn + 1
                      /\ after.counters.current_turn = after.turn
                      /\ after.counters.turns_since_last_rumination
                            = counters.turns_since_last_rumination + 1
                /\ pc = "append episode" =>
                      /\ Len(episodic_log') = Len(episodic_log) + 1
                      /\ SubSeq(episodic_log', 1, Len(episodic_log)) = episodic_log
                      /\ episodic_log'[Len(episodic_log')].turn = held.turn
                /\ pc = "append observation" =>
                      /\ Len(belief_log') = Len(belief_log) + 1
                      /\ SubSeq(belief_log', 1, Len(belief_log)) = belief_log
                      /\ belief_log'[Len(belief_log')].turn = held.turn
                /\ pc = "read window" =>
                      WindowRead(belief_log, held.session_id, held.turn)
                          = SelectSeq(belief_log, LAMBDA obj :
                                obj.turn >= held.turn - 1 /\ obj.turn <= held.turn)
                /\ pc = "write vectors" =>
                      /\ \A f \in BackupFiles \ {"vectors.json"} : disk'[f] = disk[f]
                      /\ disk'["vectors.json"] = "json" => vectors' = held.vectors
                /\ pc = "write counters" =>
                      /\ \A f \in BackupFiles \ {"counters.json"} : disk'[f] = disk[f]
                      /\ disk'["counters.json"] = "json" => counters' = held.counters
                /\ pc = "append reply" =>
                      /\ result'.turn = held.turn
                      /\ Len(episodic_log') = Len(episodic_log) + 1
                      /\ episodic_log'[Len(episodic_log')].turn = held.turn]_vars

\* C30 witness: "moon cafe loud" by session alice, then by session bob after
\* alice's step returned: the second step ran as turn 2, fired the
\* consolidation of the window of 2 and created the belief from the observation
\* of each session
C30_Witness ==
    /\ last_op = "step"
    /\ calls["first"] = ReturnedCall("alice")
    /\ calls["second"] = ReturnedCall("bob")
    /\ counters.current_turn = 2
    /\ counters.last_rumination_turn = 2
    /\ Len(belief_log) = 2
    /\ belief_log[1].turn = 1
    /\ belief_log[2].turn = 2
    /\ "moon_cafe_noise_level" \in DOMAIN persona.stable.stable_beliefs.places
====
